---- MODULE Spec2Model ----
(***************************************************************************)
(* Layout engine of the toy web browser: a document tree is walked once,   *)
(* depth first and in document order, and every node gets a box.  The      *)
(* repository carries the traversal three times: the self-contained        *)
(* engine of src/layout/layout_engine.py (variant "engine"), its older     *)
(* copy src/layout_engine.py, which has no table layout (variant           *)
(* "legacy"), and the element classes of src/elements/ that are reached    *)
(* through ElementFactory (variant "elements").  All are modelled; the     *)
(* variable `variant` says which one a pass runs.                          *)
(*                                                                         *)
(* Lengths are exact rationals, stored as integers in units of 1/3600      *)
(* pixel, so that 1.5 x, 0.2 x, 1.1 x and the division of a table width    *)
(* by its column count stay exact.  Text is a sequence of one-character    *)
(* strings; a missing text (None) and the empty text are both the empty    *)
(* sequence, as every use in the source tests only the truth value.        *)
(***************************************************************************)
EXTENDS Integers, Sequences, FiniteSets, TLC

\* ---------------------------------------------------------------- bounds
MaxTextLen == 5
MaxRows == 2
MaxCols == 2
MaxItems == 2
MaxPasses == 2
MaxBreaks == 3
MaxCellKids == 2
MaxEvents == 4
MaxGets == 3
MaxOtherPasses == 2

\* ------------------------------------------------------ program constants
DEFAULT_FONT_SIZE == 16
LINE_HEIGHT_TENTHS == 15
CHAR_WIDTH_ESTIMATE == 8
MARGIN == 10
PADDING == 5
VIEWPORT_WIDTH == 800

\* ------------------------------------------------------------- state
\* The layout engine and the pass it runs:
\*   variant        which code lays the document out: "engine" is
\*                  src/layout/layout_engine.py, "legacy" is src/layout_engine.py
\*                  (the same engine without the table branches), "elements"
\*                  is the element classes of src/elements/ behind the factory
\*   viewport_width LayoutEngine.viewport_width
\*   dom            the document handed to compute_layout
\*   current_y      LayoutEngine.current_y, the write cursor
\*   pc, child_index  the position of compute_layout and of its loop over the
\*                  root's children
\*   layout_root    the root LayoutNode compute_layout builds
\*   calls          the element layout calls of the pass so far
\*   pass, prev_root the number of the pass and the tree of the pass before
\* Another LayoutEngine instance of the same process:
\*   other_y        its current_y
\*   other_runs     the compute_layout calls made on such instances so far:
\*                  for each, the pass and position of the engine above when
\*                  the call was made
\* The text wrapping functions applied to one input:
\*   wrap_input, wrap_width  the text and the maximum width
\*   wrap_font      the font handed to wrap_text_with_font, once called
\*   wrap_lines, font_lines, wrapped, font_wrapped  the results, once made
\* The layout of one table cell, followed through its exits:
\*   cell_pc        where the cell's layout stands: "idle", "children" (in
\*                  the loop over the children), "returned", "raised" (left
\*                  by an exception of a child's layout)
\*   cell_saved_y   the cursor saved when the cell's layout began
\*   cell_kids      what the layout of each child of the cell does
\*   cell_i         the child the loop is at
\* The HTML parser between parse() and the end of the input:
\*   parser_nodes   the DOM nodes made so far, by number: [tag, parent];
\*                  node 1 is HTMLParser.root, whose parent is 0 (None)
\*   stack, current HTMLParser.stack and HTMLParser.current, as node numbers
\*   fed            the number of events handled so far
\* The font manager (FontManager, and the same code in Renderer):
\*   default_font, bold_font, mono_font  the fonts _load_fonts loaded
\*   font_cache     the cache: a set of [key, font]
\*   got            the last get_font call: its arguments, whether the font
\*                  files could not be read when it was made, and the font
\*                  returned
\*   gets           the number of get_font calls so far
VARIABLES variant, viewport_width, dom, current_y, pc, child_index, layout_root, calls,
          pass, prev_root, wrap_input, wrap_width, wrap_font, wrap_lines, font_lines,
          wrapped, font_wrapped, cell_pc, cell_saved_y, cell_kids, cell_i,
          parser_nodes, stack, current, fed,
          default_font, bold_font, mono_font, font_cache, got, gets,
          other_y, other_runs

vars == <<variant, viewport_width, dom, current_y, pc, child_index, layout_root, calls,
          pass, prev_root, wrap_input, wrap_width, wrap_font, wrap_lines, font_lines,
          wrapped, font_wrapped, cell_pc, cell_saved_y, cell_kids, cell_i,
          parser_nodes, stack, current, fed,
          default_font, bold_font, mono_font, font_cache, got, gets,
          other_y, other_runs>>
cell_vars == <<cell_pc, cell_saved_y, cell_kids, cell_i>>
parser_vars == <<parser_nodes, stack, current, fed>>
font_vars == <<default_font, bold_font, mono_font, font_cache, got, gets>>
other_vars == <<other_y, other_runs>>
aux_vars == <<cell_vars, parser_vars, font_vars, other_vars>>
layout_vars == <<variant, viewport_width, dom, current_y, pc, child_index, layout_root,
                 calls, pass, prev_root>>
wrap_vars == <<wrap_input, wrap_width, wrap_font, wrap_lines, font_lines, wrapped,
              font_wrapped>>

\* no cell layout is followed
CellIdle == cell_pc = "idle" /\ cell_saved_y = 0 /\ cell_kids = <<>> /\ cell_i = 1

\* a font: the file it was made from, its size, and whether it is a
\* FreeTypeFont; NoFont stands for None
Font(path, size, freetype) == [path |-> path, size |-> size, freetype |-> freetype]
NoFont == Font("None", 0, FALSE)
NoGet == [size |-> 0, bold |-> FALSE, italic |-> FALSE, monospace |-> FALSE,
          unreadable |-> FALSE, font |-> NoFont]

\* no parser is followed
ParserIdle == parser_nodes = <<>> /\ stack = <<>> /\ current = 0 /\ fed = 0
\* no font manager is followed
FontIdle ==
    /\ default_font = NoFont /\ bold_font = NoFont /\ mono_font = NoFont
    /\ font_cache = {} /\ got = NoGet /\ gets = 0
\* no other engine has been constructed
OtherIdle == other_y = 0 /\ other_runs = <<>>
AuxIdle == CellIdle /\ ParserIdle /\ FontIdle /\ OtherIdle
\* the font argument of wrap_text_with_font, as far as the wrapping reads
\* it: whether it has getbbox ("present"), has none ("absent") or has one
\* that raises ("raises"), and the advance of each character, of which
\* getbbox(line)[2] is the sum
TextFont(getbbox, advance) == [getbbox |-> getbbox, advance |-> advance]
NoTextFont == TextFont("absent", <<>>)

\* no text is wrapped
WrapIdle ==
    /\ wrap_input = <<>> /\ wrap_width = 0 /\ wrap_font = NoTextFont
    /\ wrap_lines = <<>> /\ font_lines = <<>>
    /\ wrapped = FALSE /\ font_wrapped = FALSE

\* n pixels, in units of 1/3600 pixel
Px(n) == n * 3600

\* v * LINE_HEIGHT (1.5)
TimesLineHeight(v) == (v * LINE_HEIGHT_TENTHS) \div 10

\* HEADING_SIZES, in hundredths; .get(tag, 1.0)
HEADING_SIZES(tag) ==
    CASE tag = "h1" -> 200
      [] tag = "h2" -> 175
      [] tag = "h3" -> 150
      [] tag = "h4" -> 125
      [] tag = "h5" -> 110
      [] tag = "h6" -> 100
      [] OTHER -> 100

Max(a, b) == IF a >= b THEN a ELSE b

\* ------------------------------------------------------------------ text
\* the whitespace of str.split() and str.strip() below U+0080: blank, tab,
\* newline, carriage return, form feed, vertical tab, U+001C..U+001F
ASCII_WHITESPACE == {" ", "\t", "\n", "\r", "\f", "", "", "", "", ""}

\* and above it, as far as a string of a module read as UTF-8 can hold them:
\* U+0085, U+00A0 and U+1680. (Python also takes U+2000..U+200A, U+2028,
\* U+2029, U+202F, U+205F and U+3000, which cannot be written in a string
\* of a module, so that no text of the model contains them.)
UNICODE_WHITESPACE == {"", " ", " "}

\* a character is a string of length 1: where the module is not read as
\* UTF-8, a character above U+007F is read as several characters, the
\* same ones for all of them, and is whitespace no more than a letter is
WHITESPACE == ASCII_WHITESPACE \cup {c \in UNICODE_WHITESPACE : Len(c) = 1}
IsSpace(c) == c \in WHITESPACE

RECURSIVE lstrip(_)
lstrip(s) == IF s = <<>> THEN s
             ELSE IF IsSpace(Head(s)) THEN lstrip(Tail(s)) ELSE s

RECURSIVE rstrip(_)
rstrip(s) == IF s = <<>> THEN s
             ELSE IF IsSpace(s[Len(s)]) THEN rstrip(SubSeq(s, 1, Len(s) - 1))
             ELSE s

\* str.strip()
strip(s) == rstrip(lstrip(s))

\* str.split(): the maximal runs of non-whitespace characters, in order
RECURSIVE split_from(_, _, _)
split_from(s, cur, acc) ==
    IF s = <<>> THEN (IF cur = <<>> THEN acc ELSE Append(acc, cur))
    ELSE IF IsSpace(Head(s))
         THEN split_from(Tail(s), <<>>, IF cur = <<>> THEN acc ELSE Append(acc, cur))
         ELSE split_from(Tail(s), Append(cur, Head(s)), acc)

split(s) == split_from(s, <<>>, <<>>)

\* str.split("\n"): the pieces between newlines, empty pieces kept
RECURSIVE split_nl_from(_, _, _)
split_nl_from(s, cur, acc) ==
    IF s = <<>> THEN Append(acc, cur)
    ELSE IF Head(s) = "\n"
         THEN split_nl_from(Tail(s), <<>>, Append(acc, cur))
         ELSE split_nl_from(Tail(s), Append(cur, Head(s)), acc)

split_nl(s) == split_nl_from(s, <<>>, <<>>)

\* " ".join(words)
RECURSIVE join(_)
join(words) ==
    IF words = <<>> THEN <<>>
    ELSE IF Len(words) = 1 THEN words[1]
    ELSE words[1] \o <<" ">> \o join(Tail(words))

\* --------------------------------------------------------- text wrapping
\* The loop of TextOperations.wrap_text; st = [lines, current_line, line_width].
\* A line is kept as its sequence of words until it is joined.
WrapStepNoFlush(st, word, max_width, char_width) ==
    LET word_width == Len(word) * char_width
    IN  [lines |-> st.lines,
         current_line |-> Append(st.current_line, word),
         line_width |-> st.line_width + word_width + char_width]

WrapStepDropLine(st, word, max_width, char_width) ==
    LET word_width == Len(word) * char_width
    IN  IF st.line_width + word_width > max_width /\ st.current_line # <<>>
        THEN [lines |-> st.lines,
              current_line |-> <<word>>,
              line_width |-> word_width]
        ELSE [lines |-> st.lines,
              current_line |-> Append(st.current_line, word),
              line_width |-> st.line_width + word_width + char_width]

wrap_step(st, word, max_width, char_width) ==
    LET word_width == Len(word) * char_width
    IN  IF st.line_width + word_width > max_width /\ st.current_line # <<>>
        THEN [lines |-> Append(st.lines, join(st.current_line)),
              current_line |-> <<word>>,
              line_width |-> word_width]
        ELSE [lines |-> st.lines,
              current_line |-> Append(st.current_line, word),
              line_width |-> st.line_width + word_width + char_width]

RECURSIVE wrap_loop(_, _, _, _)
wrap_loop(words, st, max_width, char_width) ==
    IF words = <<>> THEN st
    ELSE wrap_loop(Tail(words), wrap_step(st, Head(words), max_width, char_width),
                   max_width, char_width)

\* TextOperations.wrap_text(text, max_width, char_width)
wrap_text(text, max_width, char_width) ==
    LET st == wrap_loop(split(text),
                        [lines |-> <<>>, current_line |-> <<>>, line_width |-> 0],
                        max_width, char_width)
    IN  IF st.current_line # <<>> THEN Append(st.lines, join(st.current_line))
        ELSE st.lines

\* font.getbbox(line)[2]: the right edge of the line's box
RECURSIVE getbbox_right(_, _)
getbbox_right(font, line) ==
    IF line = <<>> THEN 0
    ELSE font.advance[Head(line)] + getbbox_right(font, Tail(line))

\* Width of a candidate line in wrap_text_with_font: font.getbbox(line)[2]
\* when the font has getbbox, the estimate len(line) * CHAR_WIDTH_ESTIMATE
\* when it has none or getbbox raises
measure(font, line) ==
    IF font.getbbox = "present" THEN getbbox_right(font, line)
    ELSE Len(line) * Px(CHAR_WIDTH_ESTIMATE)

\* One paragraph of wrap_text_with_font; st = [lines, current_line]
font_wrap_step(st, word, font, max_width) ==
    LET test_line == join(Append(st.current_line, word))
        width == measure(font, test_line)
    IN  IF width <= max_width \/ st.current_line = <<>>
        THEN [lines |-> st.lines, current_line |-> Append(st.current_line, word)]
        ELSE [lines |-> Append(st.lines, join(st.current_line)),
              current_line |-> <<word>>]

RECURSIVE font_wrap_words(_, _, _, _)
font_wrap_words(words, st, font, max_width) ==
    IF words = <<>> THEN st
    ELSE font_wrap_words(Tail(words), font_wrap_step(st, Head(words), font, max_width),
                         font, max_width)

RECURSIVE font_wrap_paragraphs(_, _, _, _)
font_wrap_paragraphs(paras, lines, font, max_width) ==
    IF paras = <<>> THEN lines
    ELSE LET words == split(Head(paras))
         IN  IF words = <<>>
             THEN font_wrap_paragraphs(Tail(paras), Append(lines, <<>>), font, max_width)
             ELSE LET st == font_wrap_words(words,
                                [lines |-> lines, current_line |-> <<>>],
                                font, max_width)
                  IN  font_wrap_paragraphs(Tail(paras),
                          IF st.current_line # <<>>
                          THEN Append(st.lines, join(st.current_line))
                          ELSE st.lines,
                          font, max_width)

\* FontOperations.wrap_text_with_font(text, font, max_width)
wrap_text_with_font(text, font, max_width) ==
    IF text = <<>> THEN << <<>> >>
    ELSE IF max_width <= 0 THEN <<text>>
    ELSE font_wrap_paragraphs(split_nl(text), <<>>, font, max_width)

\* TextOperations.compute_text_height(lines, font_size)
compute_text_height(lines, font_size) == TimesLineHeight(Len(lines) * font_size)

\* -------------------------------------------------------------- DOM nodes
\* DOMNode: attrs is the set of <<key, value>> pairs of the attribute dict.
DOMNode(tag, attrs, text, children) ==
    [tag |-> tag, attrs |-> attrs, text |-> text, children |-> children]

HasAttr(n, k) == \E p \in n.attrs : p[1] = k
\* dict.get(k, default)
AttrGet(n, k, default) ==
    IF HasAttr(n, k) THEN (CHOOSE p \in n.attrs : p[1] = k)[2] ELSE default

\* the document node reached from n along a path of child indices
RECURSIVE NodeAt(_, _)
NodeAt(n, path) ==
    IF path = <<>> THEN n ELSE NodeAt(n.children[Head(path)], Tail(path))

RECURSIVE NodeCount(_)
RECURSIVE NodeCountSeq(_)
NodeCountSeq(kids) ==
    IF kids = <<>> THEN 0 ELSE NodeCount(Head(kids)) + NodeCountSeq(Tail(kids))
NodeCount(n) == 1 + NodeCountSeq(n.children)

\* extract_text of pre.py / button.py / select.py: the concatenated text of
\* all descendant text nodes, verbatim
RECURSIVE extract_text(_)
RECURSIVE extract_text_seq(_)
extract_text_seq(kids) ==
    IF kids = <<>> THEN <<>>
    ELSE extract_text(Head(kids)) \o extract_text_seq(Tail(kids))
extract_text(n) ==
    IF n.tag = "text" THEN n.text ELSE extract_text_seq(n.children)

\* ----------------------------------------------------------- layout nodes
Box(x, y, width, height) == [x |-> x, y |-> y, width |-> width, height |-> height]

\* LayoutNode(dom_node, box): the annotations start absent (empty / 0)
LayoutNode(path, tag, box) ==
    [path |-> path, tag |-> tag, box |-> box, children |-> <<>>,
     lines |-> <<>>, font_size |-> 0, marker |-> "", has_marker |-> FALSE,
     marker_pos |-> <<0, 0>>, font_type |-> "", display_text |-> "",
     shown_text |-> <<>>, control_kind |-> "", is_placeholder |-> FALSE]

NoNode == LayoutNode(<<>>, "", Box(0, 0, 0, 0))

\* the place of a DOM node where a record is of no node
NoDOMNode == DOMNode("", {}, <<>>, <<>>)

\* One element layout call: the cursor when it began and when it returned,
\* whether it yielded a node, that node's box and number of children, for
\* list items the index / for tables and rows the column count (arg) and
\* column width, and the DOM node it was called on as the call leaves that
\* node's tag, attrs, text and list of children (dom).
Call(path, kind, before, after, has, node, arg, dom_node) ==
    [path |-> path, kind |-> kind, before |-> before, after |-> after,
     has |-> has, box |-> IF has THEN node.box ELSE Box(0, 0, 0, 0),
     nkids |-> IF has THEN Len(node.children) ELSE 0, arg |-> arg, col_width |-> 0,
     dom |-> dom_node]

\* A round of a loop begins when the round before it is over: what that
\* round left (cursor, nodes, calls) is a computed value by then
Completed(acc) == acc = acc

\* Result of a layout call: the cursor, the node (if any) and the calls made
Result(y, has, node, log) == [y |-> y, has |-> has, node |-> node, log |-> log]

\* state of a loop over children: cursor, nodes added so far, calls so far
Acc(y, nodes, log) == [y |-> y, nodes |-> nodes, log |-> log]

AddChild(acc, r) ==
    Acc(r.y, IF r.has THEN Append(acc.nodes, r.node) ELSE acc.nodes, acc.log \o r.log)

\* ------------------------------------------------------- element dispatch
\* ElementFactory.TAG_TO_ELEMENT
TAG_TO_ELEMENT ==
    [t \in {"text"} |-> "Text"] @@
    [t \in {"h1", "h2", "h3", "h4", "h5", "h6"} |-> "Heading"] @@
    [t \in {"p", "div", "blockquote"} |-> "Block"] @@
    [t \in {"pre"} |-> "Pre"] @@
    [t \in {"button"} |-> "Button"] @@
    [t \in {"input"} |-> "Input"] @@
    [t \in {"select"} |-> "Select"] @@
    [t \in {"option"} |-> "Option"] @@
    [t \in {"ul", "ol"} |-> "List"] @@
    [t \in {"li"} |-> "ListItem"] @@
    [t \in {"b", "i", "u", "strong", "em", "code", "span", "a"} |-> "Inline"] @@
    [t \in {"table"} |-> "Table"] @@
    [t \in {"tr"} |-> "TableRow"] @@
    [t \in {"td", "th"} |-> "TableCell"] @@
    [t \in {"br"} |-> "Break"] @@
    [t \in {"hr"} |-> "HorizontalRule"]

\* a dispatch whose default is the inline behaviour
CreateElementInlineDefault(tag) ==
    IF tag \in DOMAIN TAG_TO_ELEMENT THEN TAG_TO_ELEMENT[tag] ELSE "Inline"

\* ElementFactory.create_element: TAG_TO_ELEMENT.get(tag, BlockElement)
create_element(tag) ==
    IF tag \in DOMAIN TAG_TO_ELEMENT THEN TAG_TO_ELEMENT[tag] ELSE "Block"

\* =================================================== variant "elements"
\* The element classes of src/elements/.  Each operator takes the document
\* node n, the x it is laid out at, the engine's current_y when the call
\* begins, the node's path and the viewport width, and returns a Result.
RECURSIVE _layout_child(_, _, _, _, _)
RECURSIVE element_layout(_, _, _, _, _, _)
RECURSIVE _layout_child_with_width(_, _, _, _, _, _)

\* for child in children: child_layout = _layout_child(child, cx); add if any
RECURSIVE layout_children(_, _, _, _, _, _)
layout_children(kids, i, cx, acc, path, vw) ==
    IF Completed(acc) /\ i > Len(kids) THEN acc
    ELSE layout_children(kids, i + 1, cx,
             AddChild(acc, _layout_child(kids[i], cx, acc.y, Append(path, i), vw)),
             path, vw)

\* TextElement.layout(engine, x, viewport_width, max_width=...)
TextElement_layout(n, x, y, path, vw, max_width) ==
    LET text == strip(n.text)
        lines == wrap_text(text, max_width, Px(8))
        height == TimesLineHeight(Len(lines) * Px(DEFAULT_FONT_SIZE))
        node == [LayoutNode(path, n.tag, Box(x, y, max_width, height))
                    EXCEPT !.lines = lines]
    IN  IF text = <<>>
        THEN Result(y, FALSE, NoNode, <<Call(path, "Text", y, y, FALSE, NoNode, 0, n)>>)
        ELSE Result(y + height, TRUE, node,
                    <<Call(path, "Text", y, y + height, TRUE, node, 0, n)>>)

\* BlockElement.layout
BlockElement_layout(n, x, y, path, vw) ==
    LET start_y == y
        acc == layout_children(n.children, 1, x + Px(PADDING),
                               Acc(y + Px(MARGIN), <<>>, <<>>), path, vw)
        end_y == acc.y + Px(MARGIN)
        node == [LayoutNode(path, n.tag, Box(x, y, vw - 2 * x, end_y - start_y))
                    EXCEPT !.children = acc.nodes]
    IN  Result(end_y, TRUE, node,
               <<Call(path, "Block", y, end_y, TRUE, node, 0, n)>> \o acc.log)

HeadingCursorAfterWrappedText(text_y, height, wrapped_y) == wrapped_y

\* layout_engine.current_y = text_layout.box.y + height: the cursor after a
\* heading's text, whatever cursor (wrapped_y) the text's own layout left
heading_cursor(text_y, height, wrapped_y) == text_y + height

\* the loop of HeadingElement.layout over the direct children
RECURSIVE heading_children(_, _, _, _, _, _, _)
heading_children(kids, i, x, acc, path, vw, font_size) ==
    IF Completed(acc) /\ i > Len(kids) THEN acc
    ELSE LET child == kids[i]
             height == TimesLineHeight(font_size)
             r == _layout_child(child, x, acc.y, Append(path, i), vw)
             text_layout == [r.node EXCEPT !.box.height = height,
                                           !.font_size = font_size]
         IN  IF child.tag = "text" /\ child.text # <<>> /\ strip(child.text) # <<>>
             THEN heading_children(kids, i + 1, x,
                      IF r.has
                      THEN Acc(heading_cursor(text_layout.box.y, height, r.y),
                               Append(acc.nodes, text_layout), acc.log \o r.log)
                      ELSE Acc(r.y, acc.nodes, acc.log \o r.log),
                      path, vw, font_size)
             ELSE heading_children(kids, i + 1, x, acc, path, vw, font_size)

\* HeadingElement.layout
HeadingElement_layout(n, x, y, path, vw) ==
    LET size_multiplier == HEADING_SIZES(n.tag)
        start_y == y
        \* DEFAULT_FONT_SIZE * size_multiplier
        font_size == (Px(DEFAULT_FONT_SIZE) * size_multiplier) \div 100
        acc == heading_children(n.children, 1, x,
                                Acc(y + (Px(MARGIN) * 3) \div 2, <<>>, <<>>),
                                path, vw, font_size)
        end_y == acc.y + (Px(MARGIN) * 3) \div 2
        node == [LayoutNode(path, n.tag, Box(x, y, vw - 2 * x, end_y - start_y))
                    EXCEPT !.children = acc.nodes]
    IN  Result(end_y, TRUE, node,
               <<Call(path, "Heading", y, end_y, TRUE, node, 0, n)>> \o acc.log)

\* InlineElement.layout: a node only when some child yielded one
InlineElement_layout(n, x, y, path, vw) ==
    LET acc == layout_children(n.children, 1, x, Acc(y, <<>>, <<>>), path, vw)
        node == [LayoutNode(path, n.tag, Box(0, 0, 0, 0)) EXCEPT !.children = acc.nodes]
        has == acc.nodes # <<>>
    IN  Result(acc.y, has, IF has THEN node ELSE NoNode,
               <<Call(path, "Inline", y, acc.y, has, node, 0, n)>> \o acc.log)

\* the marker of an unordered item: U+2022 in elements/list.py and
\* layout/layout_engine.py; src/layout_engine.py holds the same glyph
\* mis-decoded into three characters, written here as "a" then the glyph
BULLET == "*"
LEGACY_BULLET == "a*"

ItemEndWithoutMargin(y) == y

\* the x of a list's items: x + 25
list_item_x(x) == x + Px(25)

\* the cursor after a list item: current_y += MARGIN * 0.5
item_end(y) == y + Px(MARGIN) \div 2

\* ListItemElement.layout(engine, x, viewport_width, index, ordered);
\* index = 0 stands for index=None
ListItemElement_layout(n, x, y, path, vw, index, ordered) ==
    LET start_y == y
        acc == layout_children(n.children, 1, x, Acc(y, <<>>, <<>>), path, vw)
        end_y == item_end(acc.y)
        base == [LayoutNode(path, n.tag, Box(x, y, vw - 2 * x, end_y - start_y))
                    EXCEPT !.children = acc.nodes]
        node == IF index # 0
                THEN [base EXCEPT !.has_marker = TRUE,
                                  !.marker = IF ordered THEN ToString(index) \o "." ELSE BULLET,
                                  !.marker_pos = <<x - Px(20), y + Px(DEFAULT_FONT_SIZE) \div 5>>]
                ELSE base
    IN  Result(end_y, TRUE, node,
               <<Call(path, "ListItem", y, end_y, TRUE, node, index, n)>> \o acc.log)

\* the loop of ListElement.layout: only li children, index = position + 1
RECURSIVE list_children(_, _, _, _, _, _, _)
list_children(kids, i, x, acc, path, vw, ordered) ==
    IF Completed(acc) /\ i > Len(kids) THEN acc
    ELSE list_children(kids, i + 1, x,
             IF kids[i].tag = "li"
             THEN AddChild(acc, ListItemElement_layout(kids[i], list_item_x(x), acc.y,
                                    Append(path, i), vw, i, ordered))
             ELSE acc,
             path, vw, ordered)

\* ListElement.layout
ListElement_layout(n, x, y, path, vw) ==
    LET start_y == y
        acc == list_children(n.children, 1, x, Acc(y + Px(MARGIN), <<>>, <<>>),
                             path, vw, n.tag = "ol")
        end_y == acc.y + Px(MARGIN)
        node == [LayoutNode(path, n.tag, Box(x, y, vw - 2 * x, end_y - start_y))
                    EXCEPT !.children = acc.nodes]
    IN  Result(end_y, TRUE, node,
               <<Call(path, "List", y, end_y, TRUE, node, 0, n)>> \o acc.log)

\* PreElement.layout: no wrapping, the verbatim text split at newlines
PreElement_layout(n, x, y, path, vw) ==
    LET text == extract_text(n)
        lines == split_nl(text)
        line_height == TimesLineHeight(Px(DEFAULT_FONT_SIZE))
        total_height == Len(lines) * line_height + 2 * Px(MARGIN)
        node == [LayoutNode(path, n.tag, Box(x, y, vw - 2 * x, total_height))
                    EXCEPT !.lines = lines, !.font_type = "monospace"]
    IN  IF text = <<>>
        THEN Result(y, FALSE, NoNode, <<Call(path, "Pre", y, y, FALSE, NoNode, 0, n)>>)
        ELSE Result(y + total_height, TRUE, node,
                    <<Call(path, "Pre", y, y + total_height, TRUE, node, 0, n)>>)

\* ButtonElement.layout
ButtonElement_layout(n, x, y, path, vw) ==
    LET text == strip(extract_text(n))
        button_padding == Px(PADDING) * 2
        line_height == TimesLineHeight(Px(DEFAULT_FONT_SIZE))
        text_width == Len(text) * Px(CHAR_WIDTH_ESTIMATE)
        button_width == text_width + 2 * button_padding
        button_height == line_height + 2 * button_padding
        node == [LayoutNode(path, n.tag, Box(x, y, button_width, button_height))
                    EXCEPT !.shown_text = text, !.control_kind = "button"]
    IN  IF text = <<>>
        THEN Result(y, FALSE, NoNode, <<Call(path, "Button", y, y, FALSE, NoNode, 0, n)>>)
        ELSE Result(y + button_height + Px(MARGIN), TRUE, node,
                    <<Call(path, "Button", y, y + button_height + Px(MARGIN), TRUE, node, 0, n)>>)

\* str.capitalize() of the three button-like input types
capitalize(t) ==
    CASE t = "submit" -> "Submit" [] t = "button" -> "Button"
      [] t = "reset" -> "Reset" [] OTHER -> t

\* InputElement.layout, the display text: the value, the placeholder, or
\* for the button types the capitalized type
input_display_text(input_type, value, placeholder) ==
    IF value # "" THEN value
    ELSE IF placeholder # "" THEN placeholder
    ELSE IF input_type \in {"submit", "button", "reset"} THEN capitalize(input_type)
    ELSE ""

\* InputElement.layout, <<width, height>> by input type; a button type is
\* sized by its value or its capitalized type, whatever the placeholder
input_dimensions(input_type, value) ==
    CASE input_type \in {"text", "email", "password", "url", "search"} ->
             <<Px(200), Px(DEFAULT_FONT_SIZE) + 2 * Px(PADDING)>>
      [] input_type \in {"submit", "button", "reset"} ->
             LET button_text == IF value # "" THEN value ELSE capitalize(input_type)
             IN  <<Len(button_text) * Px(CHAR_WIDTH_ESTIMATE) + 2 * Px(PADDING) + Px(20),
                   Px(DEFAULT_FONT_SIZE) + 2 * Px(PADDING)>>
      [] input_type \in {"checkbox", "radio"} -> <<Px(16), Px(16)>>
      [] OTHER -> <<Px(100), Px(DEFAULT_FONT_SIZE) + 2 * Px(PADDING)>>

\* InputElement.layout
InputElement_layout(n, x, y, path, vw) ==
    LET input_type == AttrGet(n, "type", "text")
        value == AttrGet(n, "value", "")
        placeholder == AttrGet(n, "placeholder", "")
        display_text == input_display_text(input_type, value, placeholder)
        dims == input_dimensions(input_type, value)
        height == IF input_type \notin {"checkbox", "radio"}
                  THEN Max(dims[2], Px(DEFAULT_FONT_SIZE) + 2 * Px(PADDING))
                  ELSE dims[2]
        node == [LayoutNode(path, n.tag, Box(x, y, dims[1], height))
                    EXCEPT !.display_text = display_text, !.control_kind = input_type,
                           !.is_placeholder = (value = "")]
    IN  Result(y + height + Px(MARGIN), TRUE, node,
               <<Call(path, "Input", y, y + height + Px(MARGIN), TRUE, node, 0, n)>>)

\* SelectElement._get_options: the option children, in order
option_children(n) == SelectSeq(n.children, LAMBDA c : c.tag = "option")

\* OptionElement.get_text
get_text(option) == strip(extract_text(option))

\* SelectElement._get_selected_text; has = FALSE stands for None
RECURSIVE first_selected(_, _)
first_selected(options, i) ==
    IF i > Len(options) THEN 0
    ELSE IF HasAttr(options[i], "selected") THEN i ELSE first_selected(options, i + 1)

_get_selected_text(n) ==
    LET options == option_children(n)
        k == first_selected(options, 1)
    IN  IF options = <<>> THEN [has |-> FALSE, text |-> <<>>]
        ELSE IF k # 0 THEN [has |-> TRUE, text |-> get_text(options[k])]
        ELSE [has |-> TRUE, text |-> get_text(options[1])]

PLACEHOLDER == <<"S", "e", "l", "e", "c", "t", ".", ".", ".">>

\* SelectElement.layout
SelectElement_layout(n, x, y, path, vw) ==
    LET selected_text == _get_selected_text(n).text
        display_text == IF selected_text # <<>> THEN selected_text ELSE PLACEHOLDER
        padding == Px(PADDING) * 2
        line_height == TimesLineHeight(Px(DEFAULT_FONT_SIZE))
        text_width == Len(display_text) * Px(CHAR_WIDTH_ESTIMATE)
        arrow_width == Px(20)
        select_width == Max(text_width + 2 * padding + arrow_width, Px(150))
        select_height == line_height + 2 * padding
        node == [LayoutNode(path, n.tag, Box(x, y, select_width, select_height))
                    EXCEPT !.shown_text = display_text, !.control_kind = "select",
                           !.is_placeholder = (selected_text = <<>>)]
    IN  Result(y + select_height + Px(MARGIN), TRUE, node,
               <<Call(path, "Select", y, y + select_height + Px(MARGIN), TRUE, node, 0, n)>>)

\* OptionElement.layout: never a node, no cursor change
OptionElement_layout(n, x, y, path, vw) ==
    Result(y, FALSE, NoNode, <<Call(path, "Option", y, y, FALSE, NoNode, 0, n)>>)

BreakAdvanceWholeLine(y) == y + Px(DEFAULT_FONT_SIZE)

\* the cursor after a line break: current_y += DEFAULT_FONT_SIZE * 0.5
break_advance(y) == y + Px(DEFAULT_FONT_SIZE) \div 2

\* BreakElement.layout
BreakElement_layout(n, x, y, path, vw) ==
    Result(break_advance(y), FALSE, NoNode,
           <<Call(path, "Break", y, break_advance(y), FALSE, NoNode, 0, n)>>)

\* HorizontalRuleElement.layout
HorizontalRuleElement_layout(n, x, y, path, vw) ==
    LET node == LayoutNode(path, n.tag, Box(x, y, vw - 2 * x, Px(2)))
    IN  Result(y + Px(10), TRUE, node,
               <<Call(path, "HorizontalRule", y, y + Px(10), TRUE, node, 0, n)>>)

\* positions of the children of n whose tag is in tags, in document order
RECURSIVE positions_from(_, _, _)
positions_from(kids, i, tags) ==
    IF i > Len(kids) THEN <<>>
    ELSE IF kids[i].tag \in tags THEN <<i>> \o positions_from(kids, i + 1, tags)
    ELSE positions_from(kids, i + 1, tags)

\* TableCalculator.get_table_rows, as positions among the children
get_table_rows(n) == positions_from(n.children, 1, {"tr"})

\* the td/th children of a row, as positions among the children
row_cells(row) == positions_from(row.children, 1, {"td", "th"})

\* TableCalculator.calculate_column_widths(rows, viewport_width, x):
\* <<col_width, num_cols>>, taken from the first row only
ColumnWidthsOfLastRow(n, rows, vw, x) ==
    IF rows = <<>> THEN <<0, 0>>
    ELSE LET num_cols == Len(row_cells(n.children[rows[Len(rows)]]))
         IN  IF num_cols = 0 THEN <<0, 0>>
             ELSE <<(vw - 2 * x - 2 * Px(PADDING)) \div num_cols, num_cols>>

calculate_column_widths(n, rows, vw, x) ==
    IF rows = <<>> THEN <<0, 0>>
    ELSE LET first_row == n.children[rows[1]]
             num_cols == Len(row_cells(first_row))
         IN  IF num_cols = 0 THEN <<0, 0>>
             ELSE <<(vw - 2 * x - 2 * Px(PADDING)) \div num_cols, num_cols>>

\* the loop of TableCellElement.layout_with_width over the cell's children
RECURSIVE cell_children(_, _, _, _, _, _, _)
cell_children(kids, i, cx, acc, path, vw, content_width) ==
    IF Completed(acc) /\ i > Len(kids) THEN acc
    ELSE cell_children(kids, i + 1, cx,
             IF kids[i].tag # "text" \/ strip(kids[i].text) # <<>>
             THEN AddChild(acc, _layout_child_with_width(kids[i], cx, content_width,
                                    acc.y, Append(path, i), vw))
             ELSE acc,
             path, vw, content_width)

\* the cursor a cell leaves, were it not put back: the end of its content
KeepContentCursor(saved_y, content_end) == content_end

\* layout_engine.current_y = saved_y, the last statement of a cell's layout
restore_cursor(saved_y, content_end) == saved_y

\* TableCellElement.layout_with_width: the content is laid out from
\* start_y + PADDING and the cursor is put back to its value at entry
\* TableCellElement.layout_with_width after its loop over the children,
\* which left acc: the height, and the cursor put back
cell_after_children(n, x, y, path, width, acc) ==
    LET cell_content_y == y + Px(PADDING)
        saved_y == y
        content_height == acc.y - cell_content_y
        node == [LayoutNode(path, n.tag,
                            Box(x, y, width, content_height + 2 * Px(PADDING)))
                    EXCEPT !.children = acc.nodes]
        end_y == restore_cursor(saved_y, acc.y)
    IN  Result(end_y, TRUE, node,
               <<Call(path, "TableCell", y, end_y, TRUE, node, 0, n)>> \o acc.log)

TableCellElement_layout_with_width(n, x, y, path, vw, width) ==
    LET start_y == y
        cell_content_y == start_y + Px(PADDING)
        content_width == width - 2 * Px(PADDING)
    IN  cell_after_children(n, x, y, path, width,
            cell_children(n.children, 1, x + Px(PADDING),
                          Acc(cell_content_y, <<>>, <<>>), path, vw, content_width))

\* max(child.box.height for child in nodes), nodes non-empty
RECURSIVE max_height(_)
max_height(nodes) ==
    IF Len(nodes) = 1 THEN nodes[1].box.height
    ELSE Max(nodes[1].box.height, max_height(Tail(nodes)))

\* the cursor a row leaves when the start of the row is left out of it
RowCursorWithoutStart(start_y, max_cell_height) == max_cell_height

\* layout_engine.current_y = start_y + max_cell_height
row_cursor(start_y, max_cell_height) == start_y + max_cell_height

\* layout_node.add_child(cell_layout) in a row: the cell's node is added,
\* and the cursor before and after the i-th cell is noted as a call of
\* kind "RowCellStep"
AddCell(acc, cell_path, i, r) ==
    Acc(r.y, Append(acc.nodes, r.node),
        acc.log \o <<Call(cell_path, "RowCellStep", acc.y, r.y, r.has, r.node, i, NoDOMNode)>>
                \o r.log)

\* a row that lays out every cell it has, whatever the column count
CellAlwaysWithinColumns(cell_index, num_cols) == TRUE

\* the column limit of a row: cell_index cells were laid out before this one
\* (`if i >= num_cols: break`, `cell_index < num_cols`)
cell_within_columns(cell_index, num_cols) == cell_index < num_cols

\* the loop of TableRowElement.layout_with_table_params over the cells:
\* cells is the sequence of td/th positions, i counts from 1
RECURSIVE row_cells_loop(_, _, _, _, _, _, _, _, _)
row_cells_loop(row, cells, i, current_x, acc, path, vw, col_width, num_cols) ==
    IF Completed(acc) /\ (i > Len(cells) \/ ~cell_within_columns(i - 1, num_cols)) THEN acc
    ELSE row_cells_loop(row, cells, i + 1, current_x + col_width,
             AddCell(acc, Append(path, cells[i]), i,
                     TableCellElement_layout_with_width(row.children[cells[i]],
                         current_x, acc.y, Append(path, cells[i]), vw, col_width)),
             path, vw, col_width, num_cols)

\* TableRowElement.layout_with_table_params
\* TableRowElement.layout_with_table_params after its loop over the cells,
\* which left acc: the row's height and the cursor
row_after_cells(n, x, y, path, vw, col_width, num_cols, acc) ==
    LET start_y == y
        has_cells == acc.nodes # <<>>
        max_cell_height == IF has_cells THEN max_height(acc.nodes) ELSE 0
        end_y == IF has_cells THEN row_cursor(start_y, max_cell_height) ELSE acc.y
        node == [LayoutNode(path, n.tag, Box(x, y, vw - 2 * x, max_cell_height))
                    EXCEPT !.children = acc.nodes]
    IN  Result(end_y, TRUE, node,
               <<[Call(path, "TableRow", y, end_y, TRUE, node, num_cols, n)
                     EXCEPT !.col_width = col_width]>> \o acc.log)

TableRowElement_layout_with_table_params(n, x, y, path, vw, col_width, num_cols) ==
    row_after_cells(n, x, y, path, vw, col_width, num_cols,
        row_cells_loop(n, row_cells(n), 1, x, Acc(y, <<>>, <<>>),
                       path, vw, col_width, num_cols))

\* the loop of TableElement.layout over the rows
RECURSIVE table_rows_loop(_, _, _, _, _, _, _, _, _)
table_rows_loop(n, rows, i, x, acc, path, vw, col_width, num_cols) ==
    IF Completed(acc) /\ i > Len(rows) THEN acc
    ELSE table_rows_loop(n, rows, i + 1, x,
             AddChild(acc, TableRowElement_layout_with_table_params(
                               n.children[rows[i]], x, acc.y, Append(path, rows[i]),
                               vw, col_width, num_cols)),
             path, vw, col_width, num_cols)

\* TableElement.layout after its loop over the rows, which left acc: the
\* bottom margin and the height
table_after_rows(n, empty, path, start_y, num_cols, acc) ==
    LET end_y == acc.y + Px(MARGIN)
        node == [empty EXCEPT !.children = acc.nodes, !.box.height = end_y - start_y]
    IN  Result(end_y, TRUE, node,
               <<Call(path, "Table", start_y, end_y, TRUE, node, num_cols, n)>> \o acc.log)

EmptyTableOmitted(n, y, path, empty, num_cols) ==
    Result(y + Px(MARGIN), FALSE, NoNode,
           <<Call(path, "Table", y, y + Px(MARGIN), FALSE, NoNode, num_cols, n)>>)

\* `return layout_node` of a table without rows or without columns: the
\* node as created, with no children and height 0, after the top margin
table_without_columns(n, y, path, empty, num_cols) ==
    Result(y + Px(MARGIN), TRUE, empty,
           <<Call(path, "Table", y, y + Px(MARGIN), TRUE, empty, num_cols, n)>>)

\* TableElement.layout
TableElement_layout(n, x, y, path, vw) ==
    LET start_y == y
        rows == get_table_rows(n)
        cw == calculate_column_widths(n, rows, vw, x)
        col_width == cw[1]
        num_cols == cw[2]
        empty == LayoutNode(path, n.tag, Box(x, y, vw - 2 * x, 0))
    IN  IF rows = <<>> \/ num_cols = 0
        THEN table_without_columns(n, y, path, empty, num_cols)
        ELSE table_after_rows(n, empty, path, start_y, num_cols,
                 table_rows_loop(n, rows, 1, x, Acc(y + Px(MARGIN), <<>>, <<>>),
                                 path, vw, col_width, num_cols))

\* element.layout(layout_engine, x, viewport_width) for the element class
\* `kind` that the factory created for the node
element_layout(kind, n, x, y, path, vw) ==
        CASE kind = "Text" -> TextElement_layout(n, x, y, path, vw, vw - 2 * x)
          [] kind = "Heading" -> HeadingElement_layout(n, x, y, path, vw)
          [] kind = "Block" -> BlockElement_layout(n, x, y, path, vw)
          [] kind = "Pre" -> PreElement_layout(n, x, y, path, vw)
          [] kind = "Button" -> ButtonElement_layout(n, x, y, path, vw)
          [] kind = "Input" -> InputElement_layout(n, x, y, path, vw)
          [] kind = "Select" -> SelectElement_layout(n, x, y, path, vw)
          [] kind = "Option" -> OptionElement_layout(n, x, y, path, vw)
          [] kind = "List" -> ListElement_layout(n, x, y, path, vw)
          [] kind = "ListItem" -> ListItemElement_layout(n, x, y, path, vw, 0, FALSE)
          [] kind = "Inline" -> InlineElement_layout(n, x, y, path, vw)
          [] kind = "Table" -> TableElement_layout(n, x, y, path, vw)
          [] kind = "TableRow" ->
                 TableRowElement_layout_with_table_params(n, x, y, path, vw, 0, 0)
          [] kind = "TableCell" ->
                 TableCellElement_layout_with_width(n, x, y, path, vw, 0)
          [] kind = "Break" -> BreakElement_layout(n, x, y, path, vw)
          [] kind = "HorizontalRule" -> HorizontalRuleElement_layout(n, x, y, path, vw)

\* LayoutEngine._layout_child: the element the factory creates for the
\* node lays itself out at x in the engine's viewport
_layout_child(n, x, y, path, vw) ==
    element_layout(create_element(n.tag), n, x, y, path, vw)

\* LayoutEngine._layout_child_with_width: as _layout_child, with the
\* given width handed to the element as max_width (only text reads it)
_layout_child_with_width(n, x, width, y, path, vw) ==
    IF create_element(n.tag) = "Text"
    THEN TextElement_layout(n, x, y, path, vw, width)
    ELSE _layout_child(n, x, y, path, vw)

\* ===================================================== variant "engine"
\* LayoutEngine of src/layout/layout_engine.py, which lays every tag out
\* itself, and of src/layout_engine.py, the same engine without the
\* branches for table, tr, td and th (tables = FALSE).  Same conventions
\* as above.
RECURSIVE _layout_node(_, _, _, _, _, _)
RECURSIVE layout_by_tag(_, _, _, _, _, _)

\* for child in children: child_layout = _layout_node(child, cx); add if any
RECURSIVE engine_children(_, _, _, _, _, _, _)
engine_children(kids, i, cx, acc, path, vw, tables) ==
    IF Completed(acc) /\ i > Len(kids) THEN acc
    ELSE engine_children(kids, i + 1, cx,
             AddChild(acc, _layout_node(kids[i], cx, acc.y, Append(path, i), vw, tables)),
             path, vw, tables)

\* a text layout that assigns the stripped text to dom_node.text
TextStrippedInPlace(n, x, y, path, vw, tables, max_width) ==
    LET text == strip(n.text)
        lines == wrap_text(text, max_width, Px(8))
        height == TimesLineHeight(Len(lines) * Px(DEFAULT_FONT_SIZE))
        node == [LayoutNode(path, n.tag, Box(x, y, max_width, height))
                    EXCEPT !.lines = lines]
        blank == LayoutNode(path, n.tag, Box(0, 0, 0, 0))
        written == [n EXCEPT !.text = text]
    IN  IF text = <<>>
        THEN Result(y, TRUE, blank, <<Call(path, "Text", y, y, TRUE, blank, 0, written)>>)
        ELSE Result(y + height, TRUE, node,
                    <<Call(path, "Text", y, y + height, TRUE, node, 0, written)>>)

\* LayoutEngine._layout_text_with_width: a node is returned even for an
\* empty text, then with the default box and no lines
_layout_text_with_width(n, x, y, path, vw, tables, max_width) ==
    LET text == strip(n.text)
        lines == wrap_text(text, max_width, Px(8))
        height == TimesLineHeight(Len(lines) * Px(DEFAULT_FONT_SIZE))
        node == [LayoutNode(path, n.tag, Box(x, y, max_width, height))
                    EXCEPT !.lines = lines]
        blank == LayoutNode(path, n.tag, Box(0, 0, 0, 0))
    IN  IF text = <<>>
        THEN Result(y, TRUE, blank, <<Call(path, "Text", y, y, TRUE, blank, 0, n)>>)
        ELSE Result(y + height, TRUE, node,
                    <<Call(path, "Text", y, y + height, TRUE, node, 0, n)>>)

\* LayoutEngine._layout_text: wraps at viewport_width - 2 * x
_layout_text(n, x, y, path, vw, tables) ==
    _layout_text_with_width(n, x, y, path, vw, tables, vw - 2 * x)

\* LayoutEngine._layout_block
_layout_block(n, x, y, path, vw, tables) ==
    LET start_y == y
        acc == engine_children(n.children, 1, x + Px(PADDING),
                               Acc(y + Px(MARGIN), <<>>, <<>>), path, vw, tables)
        end_y == acc.y + Px(MARGIN)
        node == [LayoutNode(path, n.tag, Box(x, y, vw - 2 * x, end_y - start_y))
                    EXCEPT !.children = acc.nodes]
    IN  Result(end_y, TRUE, node,
               <<Call(path, "Block", y, end_y, TRUE, node, 0, n)>> \o acc.log)

\* the loop of LayoutEngine._layout_heading: text children get a box of the
\* heading's line height, without any layout call
RECURSIVE engine_heading_children(_, _, _, _, _, _, _, _)
engine_heading_children(kids, i, x, acc, path, vw, tables, font_size) ==
    IF Completed(acc) /\ i > Len(kids) THEN acc
    ELSE LET child == kids[i]
             height == TimesLineHeight(font_size)
             text_layout == [LayoutNode(Append(path, i), child.tag,
                                        Box(x, acc.y, vw - 2 * x, height))
                                EXCEPT !.font_size = font_size]
         IN  engine_heading_children(kids, i + 1, x,
                 IF child.tag = "text" /\ child.text # <<>> /\ strip(child.text) # <<>>
                 THEN Acc(acc.y + height, Append(acc.nodes, text_layout), acc.log)
                 ELSE acc,
                 path, vw, tables, font_size)

\* LayoutEngine._layout_heading
_layout_heading(n, x, y, path, vw, tables) ==
    LET size_multiplier == HEADING_SIZES(n.tag)
        start_y == y
        font_size == (Px(DEFAULT_FONT_SIZE) * size_multiplier) \div 100
        acc == engine_heading_children(n.children, 1, x,
                   Acc(y + (Px(MARGIN) * 3) \div 2, <<>>, <<>>), path, vw, tables, font_size)
        end_y == acc.y + (Px(MARGIN) * 3) \div 2
        node == [LayoutNode(path, n.tag, Box(x, y, vw - 2 * x, end_y - start_y))
                    EXCEPT !.children = acc.nodes]
    IN  Result(end_y, TRUE, node,
               <<Call(path, "Heading", y, end_y, TRUE, node, 0, n)>> \o acc.log)

\* LayoutEngine._layout_list_item(dom_node, x, index, ordered); index = 0
\* stands for index=None
_layout_list_item(n, x, y, path, vw, tables, index, ordered) ==
    LET start_y == y
        acc == engine_children(n.children, 1, x, Acc(y, <<>>, <<>>), path, vw, tables)
        end_y == item_end(acc.y)
        base == [LayoutNode(path, n.tag, Box(x, y, vw - 2 * x, end_y - start_y))
                    EXCEPT !.children = acc.nodes]
        node == IF index # 0
                THEN [base EXCEPT !.has_marker = TRUE,
                                  !.marker = IF ordered THEN ToString(index) \o "."
                                            ELSE IF tables THEN BULLET ELSE LEGACY_BULLET,
                                  !.marker_pos = <<x - Px(20), y + Px(DEFAULT_FONT_SIZE) \div 5>>]
                ELSE base
    IN  Result(end_y, TRUE, node,
               <<Call(path, "ListItem", y, end_y, TRUE, node, index, n)>> \o acc.log)

\* the loop of LayoutEngine._layout_list
RECURSIVE engine_list_children(_, _, _, _, _, _, _, _)
engine_list_children(kids, i, x, acc, path, vw, tables, ordered) ==
    IF Completed(acc) /\ i > Len(kids) THEN acc
    ELSE engine_list_children(kids, i + 1, x,
             IF kids[i].tag = "li"
             THEN AddChild(acc, _layout_list_item(kids[i], list_item_x(x), acc.y,
                                    Append(path, i), vw, tables, i, ordered))
             ELSE acc,
             path, vw, tables, ordered)

\* LayoutEngine._layout_list
_layout_list(n, x, y, path, vw, tables) ==
    LET start_y == y
        acc == engine_list_children(n.children, 1, x, Acc(y + Px(MARGIN), <<>>, <<>>),
                                    path, vw, tables, n.tag = "ol")
        end_y == acc.y + Px(MARGIN)
        node == [LayoutNode(path, n.tag, Box(x, y, vw - 2 * x, end_y - start_y))
                    EXCEPT !.children = acc.nodes]
    IN  Result(end_y, TRUE, node,
               <<Call(path, "List", y, end_y, TRUE, node, 0, n)>> \o acc.log)

\* LayoutEngine._layout_inline: always a node, with the default box
_layout_inline(n, x, y, path, vw, tables) ==
    LET acc == engine_children(n.children, 1, x, Acc(y, <<>>, <<>>), path, vw, tables)
        node == [LayoutNode(path, n.tag, Box(0, 0, 0, 0)) EXCEPT !.children = acc.nodes]
    IN  Result(acc.y, TRUE, node,
               <<Call(path, "Inline", y, acc.y, TRUE, node, 0, n)>> \o acc.log)

\* the loop of LayoutEngine._layout_table_cell_with_width over the children
RECURSIVE engine_cell_children(_, _, _, _, _, _, _, _)
engine_cell_children(kids, i, x, acc, path, vw, tables, width) ==
    IF Completed(acc) /\ i > Len(kids) THEN acc
    ELSE engine_cell_children(kids, i + 1, x,
             AddChild(acc,
                 IF kids[i].tag = "text"
                 THEN _layout_text_with_width(kids[i], x + Px(PADDING), acc.y,
                          Append(path, i), vw, tables, width - 2 * Px(PADDING))
                 ELSE _layout_node(kids[i], x + Px(PADDING), acc.y, Append(path, i), vw, tables)),
             path, vw, tables, width)

\* LayoutEngine._layout_table_cell_with_width: the cursor is left after the
\* cell's content; a cell that did not move it gets the minimum height
engine_cell_after_children(n, x, y, path, width, acc) ==
    LET start_y == y
        end_y == IF acc.y = start_y
                 THEN acc.y + TimesLineHeight(Px(DEFAULT_FONT_SIZE))
                 ELSE acc.y
        node == [LayoutNode(path, n.tag, Box(x, y, width, end_y - start_y))
                    EXCEPT !.children = acc.nodes]
    IN  Result(end_y, TRUE, node,
               <<Call(path, "TableCell", y, end_y, TRUE, node, 0, n)>> \o acc.log)

_layout_table_cell_with_width(n, x, y, path, vw, tables, width) ==
    engine_cell_after_children(n, x, y, path, width,
        engine_cell_children(n.children, 1, x, Acc(y, <<>>, <<>>), path, vw, tables, width))

\* One cell in the loop of _layout_table_row_with_width: the cursor is saved,
\* set to start_y + PADDING for the cell and put back; r is the cell's layout
engine_add_cell(st, cell_path, start_y, col_width, r) ==
    LET saved_y == st.acc.y
        cell_height == r.y - start_y - Px(PADDING)
        step == Call(cell_path, "RowCellStep", saved_y, saved_y,
                     r.has, r.node, st.cell_index + 1, NoDOMNode)
    IN  [acc |-> Acc(saved_y, Append(st.acc.nodes, r.node),
                     st.acc.log \o <<step>> \o r.log),
         current_x |-> st.current_x + col_width,
         cell_index |-> st.cell_index + 1,
         row_height |-> Max(st.row_height, cell_height)]

\* the loop of LayoutEngine._layout_table_row_with_width over the children;
\* st = [acc, current_x, cell_index, row_height]
RECURSIVE engine_row_loop(_, _, _, _, _, _, _, _, _)
engine_row_loop(kids, i, st, start_y, path, vw, tables, col_width, num_cols) ==
    IF Completed(st) /\ i > Len(kids) THEN st
    ELSE IF kids[i].tag \in {"td", "th"} /\ cell_within_columns(st.cell_index, num_cols)
    THEN engine_row_loop(kids, i + 1,
             engine_add_cell(st, Append(path, i), start_y, col_width,
                 _layout_table_cell_with_width(kids[i], st.current_x,
                     start_y + Px(PADDING), Append(path, i), vw, tables,
                     col_width - 2 * Px(PADDING))),
             start_y, path, vw, tables, col_width, num_cols)
    ELSE engine_row_loop(kids, i + 1, st, start_y, path, vw, tables, col_width, num_cols)

\* LayoutEngine._layout_table_row_with_width
engine_row_after_cells(n, x, y, path, vw, col_width, num_cols, st) ==
    LET start_y == y
        min_height == TimesLineHeight(Px(DEFAULT_FONT_SIZE))
        row_height == Max(st.row_height, min_height)
        end_y == start_y + row_height + 2 * Px(PADDING)
        node == [LayoutNode(path, n.tag,
                            Box(x, y, vw - 2 * x, row_height + 2 * Px(PADDING)))
                    EXCEPT !.children = st.acc.nodes]
    IN  Result(end_y, TRUE, node,
               <<[Call(path, "TableRow", y, end_y, TRUE, node, num_cols, n)
                     EXCEPT !.col_width = col_width]>> \o st.acc.log)

_layout_table_row_with_width(n, x, y, path, vw, tables, col_width, num_cols) ==
    engine_row_after_cells(n, x, y, path, vw, col_width, num_cols,
        engine_row_loop(n.children, 1,
            [acc |-> Acc(y, <<>>, <<>>), current_x |-> x + Px(PADDING),
             cell_index |-> 0, row_height |-> 0],
            y, path, vw, tables, col_width, num_cols))

\* the loop of LayoutEngine._layout_table over the rows
RECURSIVE engine_rows_loop(_, _, _, _, _, _, _, _, _, _)
engine_rows_loop(n, rows, i, x, acc, path, vw, tables, col_width, num_cols) ==
    IF Completed(acc) /\ i > Len(rows) THEN acc
    ELSE engine_rows_loop(n, rows, i + 1, x,
             AddChild(acc, _layout_table_row_with_width(n.children[rows[i]], x, acc.y,
                               Append(path, rows[i]), vw, tables, col_width, num_cols)),
             path, vw, tables, col_width, num_cols)

\* LayoutEngine._layout_table after its loop over the rows, which left acc
engine_table_after_rows(n, empty, path, start_y, num_cols, acc) ==
    LET end_y == acc.y + Px(MARGIN)
        node == [empty EXCEPT !.children = acc.nodes, !.box.height = end_y - start_y]
    IN  Result(end_y, TRUE, node,
               <<Call(path, "Table", start_y, end_y, TRUE, node, num_cols, n)>> \o acc.log)

\* LayoutEngine._layout_table: the column count is the td/th count of the
\* first tr; without rows or columns the node is returned as it stands
_layout_table(n, x, y, path, vw, tables) ==
    LET start_y == y
        rows == positions_from(n.children, 1, {"tr"})
        num_cols == IF rows = <<>> THEN 0 ELSE Len(row_cells(n.children[rows[1]]))
        table_width == vw - 2 * x - 2 * Px(PADDING)
        col_width == IF num_cols = 0 THEN 0 ELSE table_width \div num_cols
        empty == LayoutNode(path, n.tag, Box(x, y, vw - 2 * x, 0))
    IN  IF rows = <<>> \/ num_cols = 0
        THEN table_without_columns(n, y, path, empty, num_cols)
        ELSE engine_table_after_rows(n, empty, path, start_y, num_cols,
                 engine_rows_loop(n, rows, 1, x, Acc(y + Px(MARGIN), <<>>, <<>>),
                                  path, vw, tables, col_width, num_cols))

\* the branches of LayoutEngine._layout_node: one per group of tags, block
\* layout by default
layout_by_tag(n, x, y, path, vw, tables) ==
    CASE n.tag = "text" -> _layout_text(n, x, y, path, vw, tables)
      [] n.tag \in {"p", "div", "blockquote", "pre"} -> _layout_block(n, x, y, path, vw, tables)
      [] n.tag \in {"h1", "h2", "h3", "h4", "h5", "h6"} -> _layout_heading(n, x, y, path, vw, tables)
      [] n.tag \in {"ul", "ol"} -> _layout_list(n, x, y, path, vw, tables)
      [] n.tag = "li" -> _layout_list_item(n, x, y, path, vw, tables, 0, FALSE)
      [] n.tag = "br" ->
             Result(break_advance(y), FALSE, NoNode,
                    <<Call(path, "Break", y, break_advance(y), FALSE, NoNode, 0, n)>>)
      [] n.tag = "hr" ->
             LET node == LayoutNode(path, n.tag, Box(x, y, vw - 2 * x, Px(2)))
             IN  Result(y + Px(10), TRUE, node,
                        <<Call(path, "HorizontalRule", y, y + Px(10), TRUE, node, 0, n)>>)
      [] n.tag \in {"b", "i", "u", "strong", "em", "code", "span", "a"} ->
             _layout_inline(n, x, y, path, vw, tables)
      [] tables /\ n.tag = "table" -> _layout_table(n, x, y, path, vw, tables)
      [] tables /\ n.tag = "tr" ->
             _layout_table_row_with_width(n, x, y, path, vw, tables, Px(100), 1)
      [] tables /\ n.tag \in {"td", "th"} ->
             _layout_table_cell_with_width(n, x, y, path, vw, tables, Px(100))
      [] OTHER -> _layout_block(n, x, y, path, vw, tables)

\* LayoutEngine._layout_node
_layout_node(n, x, y, path, vw, tables) == layout_by_tag(n, x, y, path, vw, tables)

\* ============================================================ documents
T(t) == DOMNode("text", {}, t, <<>>)
E(tag, kids) == DOMNode(tag, {}, <<>>, kids)
EA(tag, attrs) == DOMNode(tag, attrs, <<>>, <<>>)

\* sequences over S of length 0..n
RECURSIVE SeqsUpTo(_, _)
SeqsUpTo(S, n) ==
    IF n = 0 THEN {<<>>}
    ELSE LET shorter == SeqsUpTo(S, n - 1)
         IN  shorter \cup {Append(q, e) : q \in {r \in shorter : Len(r) = n - 1}, e \in S}

\* texts of documents: none, blank, one word, two words, one long word
DocTexts == {<<>>, <<" ">>, <<"a">>, <<"a", " ", "b">>, <<"a", "a", "a">>}
TwoWords == T(<<"a", " ", "b">>)

Leaves == {T(t) : t \in DocTexts} \cup {E("br", <<>>), E("hr", <<>>)}
RECURSIVE Repeat(_, _)
Repeat(e, k) == IF k = 0 THEN <<>> ELSE Append(Repeat(e, k - 1), e)
\* runs of consecutive line breaks
BreakRuns == {Repeat(E("br", <<>>), k) : k \in 2..MaxBreaks}
KidSeqs == {<<>>} \cup {<<l>> : l \in Leaves} \cup {<<TwoWords, l>> : l \in Leaves}
           \cup BreakRuns

\* tags the dispatch knows, tags it does not (unknown, empty, padded, upper case)
FlowTags == {"div", "p", "h1", "h5", "span", "li", "pre", "button", "option",
             "td", "tr", "table", "ul", "foo", "", " div ", "DIV"}
Simple == {E(tag, ks) : tag \in FlowTags, ks \in KidSeqs}
SimpleFew == {E(tag, ks) : tag \in FlowTags,
                           ks \in {<<>>, <<TwoWords>>, <<T(<<" ">>)>>, <<E("br", <<>>)>>}}
Nested == {E(outer, <<s>>) : outer \in {"div", "span", "li", "td", "h1", "foo"},
                             s \in SimpleFew}

\* lists: li children with and without content, and a child that is no li
ListKids == {E("li", <<>>), E("li", <<TwoWords>>), T(<<"a">>),
             E("li", <<E("ul", <<E("li", <<T(<<"a">>)>>)>>)>>)}
Lists == {E(tag, ks) : tag \in {"ul", "ol"}, ks \in SeqsUpTo(ListKids, MaxItems)}

\* tables: rows of 0..MaxCols+1 cells, so that later rows may have more or
\* fewer cells than the first; all cells of a row share one content
CellKids == {<<>>, <<TwoWords>>, <<T(<<" ">>)>>, <<T(<<"a">>), E("br", <<>>)>>}
Row(k, tag, ks) == E("tr", Repeat(E(tag, ks), k))
Rows == {Row(k, tag, ks) : k \in 0..(MaxCols + 1), tag \in {"td"}, ks \in CellKids}
        \cup {E("tr", <<E("th", <<TwoWords>>), T(<<"a">>), E("td", <<>>)>>)}
TableKids == Rows \cup {T(<<"a">>)}
\* the rows after the first: without cells, with one cell, with more cells
\* than any first row, with a child that is no cell, and a child that is no row
LaterRows == {Row(0, "td", <<>>), Row(1, "td", <<TwoWords>>),
              Row(MaxCols + 1, "td", <<T(<<"a">>), E("br", <<>>)>>),
              E("tr", <<E("th", <<TwoWords>>), T(<<"a">>), E("td", <<>>)>>),
              T(<<"a">>)}
Tables == {E("table", <<>>)}
          \cup {E("table", <<first>> \o rest) :
                   first \in TableKids, rest \in SeqsUpTo(LaterRows, MaxRows - 1)}

\* form controls
InputAttrs == {{}, {<<"type", "text">>}, {<<"type", "submit">>},
               {<<"type", "submit">>, <<"value", "Go">>},
               {<<"type", "submit">>, <<"placeholder", "name">>},
               {<<"type", "checkbox">>, <<"checked", "">>}, {<<"type", "radio">>},
               {<<"type", "date">>}, {<<"placeholder", "name">>}}
Opt(attrs, t) == DOMNode("option", attrs, <<>>, <<T(t)>>)
Selects == {E("select", <<>>),
            E("select", <<Opt({}, <<"a">>), Opt({}, <<"b">>)>>),
            E("select", <<Opt({}, <<"a">>), Opt({<<"selected", "">>}, <<"b">>)>>),
            E("select", <<T(<<"a">>), Opt({}, <<>>)>>)}
Controls == {EA("input", a) : a \in InputAttrs} \cup Selects

\* preformatted text of several lines, with an empty line, of a newline
\* alone, and spread over two text nodes
PreTexts == {<<"a", "\n", "b">>, <<"a", "\n", "\n", "b">>, <<"\n">>, <<" ", "a">>}
Pres == {E("pre", <<T(t)>>) : t \in PreTexts}
        \cup {E("pre", <<T(<<"a", "\n">>), T(<<"b">>)>>)}

\* texts of a file with CRLF line ends: blank, and of two words
CrSubtrees == {T(<<"\r">>), T(<<"a", "\r", "\n", "b">>),
               E("p", <<T(<<"\r", "\n">>)>>), E("p", <<T(<<"a", "\r", "b">>)>>),
               E("span", <<T(<<"\r">>)>>), E("td", <<T(<<"\r">>)>>)}

\* tables below the document's first level: in a list item, where x is 35,
\* and in a block within a block
InnerTables == {E("table", <<Row(2, "td", ks)>>) : ks \in {<<>>, <<TwoWords>>}}
NestedTables == {E("ul", <<E("li", <<t>>)>>) : t \in InnerTables}
                \cup {E("div", <<E("div", <<t>>)>>) : t \in InnerTables}

Subtrees == Leaves \cup Simple \cup Nested \cup Lists \cup Tables \cup Controls \cup Pres
            \cup CrSubtrees \cup NestedTables

\* the document root and its children: one subtree, or a short text or a
\* rule followed by one
Root(kids) == DOMNode("root", {}, <<>>, kids)
Docs == {Root(<<>>)} \cup {Root(<<s>>) : s \in Subtrees}
        \cup {Root(<<f, s>>) : f \in {T(<<"a">>), E("hr", <<>>)},
                               s \in Simple \cup Lists \cup Controls}

ViewportWidths == {Px(40), Px(VIEWPORT_WIDTH)}
Variants == {"engine", "legacy", "elements"}

\* ====================================================== the layout pass
\* LayoutEngine.__init__: a fresh engine has its cursor at 0
InitLayout ==
    /\ variant \in Variants
    /\ viewport_width \in ViewportWidths
    /\ dom \in Docs
    /\ current_y = 0
    /\ pc = "ready"
    /\ child_index = 1
    /\ layout_root = NoNode
    /\ calls = <<>>
    /\ pass = 1
    /\ prev_root = NoNode

\* compute_layout, up to its loop: the root node with the box (0, 0, viewport, 0)
ComputeLayoutStart ==
    /\ pc = "ready"
    /\ layout_root' = LayoutNode(<<>>, dom.tag, Box(0, 0, viewport_width, 0))
    /\ child_index' = 1
    /\ calls' = <<>>
    /\ pc' = "children"
    /\ UNCHANGED <<variant, viewport_width, dom, current_y, pass, prev_root>>
    /\ UNCHANGED <<wrap_vars, aux_vars>>

\* the DOM node at path after the layout calls of log: its tag, attrs, text
\* and list of children are those the call on it left (a node no call was
\* made on has those it had), and each child is what the calls left of it
RECURSIVE dom_node_after(_, _, _)
dom_node_after(n, path, log) ==
    LET on_node == {k \in 1..Len(log) :
                       log[k].path = path /\ log[k].kind # "RowCellStep"}
        left == IF on_node = {} THEN n
                ELSE log[CHOOSE k \in on_node : \A j \in on_node : j <= k].dom
    IN  DOMNode(left.tag, left.attrs, left.text,
                [c \in DOMAIN left.children |->
                    dom_node_after(left.children[c], Append(path, c), log)])

\* the document after its i-th child was laid out by the calls of log:
\* compute_layout itself reads dom_root.children and child.tag / child.text
document_after(d, i, log) ==
    [d EXCEPT !.children[i] = dom_node_after(d.children[i], <<i>>, log)]

\* _layout_node / _layout_child of a root child, by the implementation
layout_root_child(child, x, y, path, vw, v) ==
    IF v = "elements"
    THEN _layout_child(child, x, y, path, vw)
    ELSE _layout_node(child, x, y, path, vw, v = "engine")

\* a loop that stays on the child it has just laid out
SameChild(i) == i

\* for child in dom_root.children: the loop moves on to the next child
next_child(i) == i + 1

\* compute_layout, one round of its loop: a root child that is not an empty
\* text is laid out at x = root.x + MARGIN and added if it yielded a node
ComputeLayoutChild ==
    /\ pc = "children"
    /\ child_index <= Len(dom.children)
    /\ LET child == dom.children[child_index]
           x == layout_root.box.x + Px(MARGIN)
           r == layout_root_child(child, x, current_y, <<child_index>>,
                                  viewport_width, variant)
       IN  IF child.tag # "text" \/ strip(child.text) # <<>>
           THEN /\ current_y' = r.y
                /\ calls' = calls \o r.log
                /\ layout_root' = IF r.has
                                  THEN [layout_root EXCEPT
                                           !.children = Append(@, r.node)]
                                  ELSE layout_root
                /\ dom' = document_after(dom, child_index, r.log)
           ELSE UNCHANGED <<current_y, calls, layout_root, dom>>
    /\ child_index' = next_child(child_index)
    /\ UNCHANGED <<variant, viewport_width, pc, pass, prev_root>>
    /\ UNCHANGED <<wrap_vars, aux_vars>>

\* the root's height when compute_layout leaves it as it was made
RootHeightUnset(y) == 0

\* layout_root.box.height = self.current_y
root_height(y) == y

\* compute_layout, after its loop: the root's height is the cursor
ComputeLayoutReturn ==
    /\ pc = "children"
    /\ child_index > Len(dom.children)
    /\ layout_root' = [layout_root EXCEPT !.box.height = root_height(current_y)]
    /\ pc' = "done"
    /\ UNCHANGED <<variant, viewport_width, dom, current_y, child_index, calls, pass, prev_root>>
    /\ UNCHANGED <<wrap_vars, aux_vars>>

\* render_html constructs a LayoutEngine for each pass: the next pass over
\* the document starts from a new engine, whose cursor is 0
NewEngine ==
    /\ pc = "done"
    /\ pass < MaxPasses
    /\ prev_root' = layout_root
    /\ current_y' = 0
    /\ pass' = pass + 1
    /\ pc' = "ready"
    /\ UNCHANGED <<variant, viewport_width, dom, child_index, layout_root, calls>>
    /\ UNCHANGED <<wrap_vars, aux_vars>>

Next ==
    \/ ComputeLayoutStart
    \/ ComputeLayoutChild
    \/ ComputeLayoutReturn
    \/ NewEngine

Init ==
    /\ InitLayout
    /\ WrapIdle
    /\ AuxIdle

Spec == Init /\ [][Next]_vars

\* ============================================== several engine instances
\* documents another engine lays out
OtherDocs == {Root(<<TwoWords>>), Root(<<E("ul", <<E("li", <<TwoWords>>)>>)>>)}
\* documents the two fresh engines lay out
EngineDocs == {Root(<<s>>) : s \in Pres \cup Controls \cup NestedTables \cup CrSubtrees}
              \cup {Root(<<T(<<" ", "a">>), E("div", <<T(<<" ">>), E("br", <<>>)>>)>>)}

InitEngines ==
    /\ variant \in Variants
    /\ viewport_width \in ViewportWidths
    /\ dom \in EngineDocs
    /\ current_y = 0
    /\ pc = "ready"
    /\ child_index = 1
    /\ layout_root = NoNode
    /\ calls = <<>>
    /\ pass = 1
    /\ prev_root = NoNode
    /\ WrapIdle
    /\ AuxIdle

\* the loop of compute_layout run to its end over d by an engine whose
\* cursor is at y: the cursor and the document it leaves
RECURSIVE compute_layout_loop(_, _, _, _, _)
compute_layout_loop(d, i, y, vw, v) ==
    IF i > Len(d.children) THEN [y |-> y, dom |-> d]
    ELSE LET child == d.children[i]
             r == layout_root_child(child, Px(MARGIN), y, <<i>>, vw, v)
         IN  IF child.tag # "text" \/ strip(child.text) # <<>>
             THEN compute_layout_loop(document_after(d, i, r.log), i + 1, r.y, vw, v)
             ELSE compute_layout_loop(d, i + 1, y, vw, v)

\* compute_layout on another engine, were the cursor one variable of the
\* module that every engine reads and writes and each constructor resets
SharedCursorComputeLayout ==
    /\ pc \in {"ready", "done"}
    /\ Len(other_runs) < MaxOtherPasses
    /\ \E d \in {dom} \cup OtherDocs, vw \in ViewportWidths, fresh \in BOOLEAN :
           LET left == compute_layout_loop(d, 1, IF fresh THEN 0 ELSE current_y,
                                           vw, variant)
           IN  /\ other_y' = left.y
               /\ current_y' = left.y
               /\ dom' = IF d = dom THEN left.dom ELSE dom
    /\ other_runs' = Append(other_runs, [pass |-> pass, pc |-> pc])
    /\ UNCHANGED <<variant, viewport_width, pc, child_index, layout_root, calls,
                   pass, prev_root>>
    /\ UNCHANGED <<wrap_vars, cell_vars, parser_vars, font_vars>>

\* compute_layout on another LayoutEngine instance, before a pass of the
\* engine above or after it: the instance is new (LayoutEngine(vw), cursor
\* 0) or the one of an earlier call, whose cursor compute_layout does not
\* reset; it lays out the same document tree or another one. self.current_y
\* and self.viewport_width are attributes of the instance, so the call
\* writes its own cursor only; the DOM nodes are the ones it was handed.
OtherEngineComputeLayout ==
    /\ pc \in {"ready", "done"}
    /\ Len(other_runs) < MaxOtherPasses
    /\ \E d \in {dom} \cup OtherDocs, vw \in ViewportWidths, fresh \in BOOLEAN :
           LET left == compute_layout_loop(d, 1, IF fresh THEN 0 ELSE other_y,
                                           vw, variant)
           IN  /\ other_y' = left.y
               /\ dom' = IF d = dom THEN left.dom ELSE dom
    /\ other_runs' = Append(other_runs, [pass |-> pass, pc |-> pc])
    /\ UNCHANGED <<variant, viewport_width, current_y, pc, child_index, layout_root,
                   calls, pass, prev_root>>
    /\ UNCHANGED <<wrap_vars, cell_vars, parser_vars, font_vars>>

NextEngines ==
    \/ ComputeLayoutStart
    \/ ComputeLayoutChild
    \/ ComputeLayoutReturn
    \/ NewEngine
    \/ OtherEngineComputeLayout

SpecEngines == InitEngines /\ [][NextEngines]_vars

\* ==================================================== the text wrapping
\* texts of up to MaxTextLen characters with words, blanks and newlines
\* and texts with the other whitespace of str.split(): carriage return (the
\* line ends of a CRLF file), form feed, vertical tab, no-break space
CrTexts == {<<"a", "\r", "b">>, <<"a", "\r", "\n", "b">>, <<"\r", "a">>, <<"a", "\f", "b">>,
            <<"a", "", "b">>, <<"a", " ", "b">>, <<"a", " ", "b">>, <<"\r">>}
WrapTexts == SeqsUpTo({"a", "b", " ", "\n"}, MaxTextLen) \cup CrTexts
\* fonts: without getbbox, with a getbbox that raises, with 10 px for every
\* character, and with characters of different widths
WrapChars == {"a", "b"} \cup ASCII_WHITESPACE \cup UNICODE_WHITESPACE
WrapFonts == {TextFont("absent", [c \in WrapChars |-> 0]),
              TextFont("raises", [c \in WrapChars |-> 0]),
              TextFont("present", [c \in WrapChars |-> Px(10)]),
              TextFont("present", [c \in WrapChars |->
                                      IF c = "b" THEN Px(12)
                                      ELSE IF c = "a" THEN Px(6) ELSE Px(4)])}
\* maximum widths: negative, zero, less than a character, one character,
\* two characters, two words and a blank
WrapWidths == {Px(0 - 10), Px(0), Px(4), Px(8), Px(16), Px(24)}

InitWrap ==
    /\ wrap_input \in WrapTexts
    /\ wrap_width \in WrapWidths
    /\ wrap_font = NoTextFont
    /\ wrap_lines = <<>> /\ font_lines = <<>>
    /\ wrapped = FALSE /\ font_wrapped = FALSE
    /\ variant = "engine" /\ viewport_width = Px(VIEWPORT_WIDTH)
    /\ dom = Root(<<>>) /\ current_y = 0 /\ pc = "ready" /\ child_index = 1
    /\ layout_root = NoNode /\ calls = <<>> /\ pass = 1 /\ prev_root = NoNode
    /\ AuxIdle

\* TextOperations.wrap_text(text, max_width) with the default char_width
WrapText ==
    /\ ~wrapped
    /\ wrap_lines' = wrap_text(wrap_input, wrap_width, Px(CHAR_WIDTH_ESTIMATE))
    /\ wrapped' = TRUE
    /\ UNCHANGED <<wrap_input, wrap_width, wrap_font, font_lines, font_wrapped>>
    /\ UNCHANGED <<layout_vars, aux_vars>>

\* FontOperations.wrap_text_with_font(text, font, max_width)
WrapTextWithFont ==
    /\ ~font_wrapped
    /\ \E font \in WrapFonts :
          /\ wrap_font' = font
          /\ font_lines' = wrap_text_with_font(wrap_input, font, wrap_width)
    /\ font_wrapped' = TRUE
    /\ UNCHANGED <<wrap_input, wrap_width, wrap_lines, wrapped>>
    /\ UNCHANGED <<layout_vars, aux_vars>>

NextWrap ==
    \/ WrapText
    \/ WrapTextWithFont

SpecWrap == InitWrap /\ [][NextWrap]_vars

\* ================================================= one cell and its exits
\* what the layout of a child of the cell does: it moves the cursor by
\* `advance`, and then returns or raises
CellKidOutcomes ==
    {[advance |-> a, raises |-> r] :
        a \in {0, TimesLineHeight(Px(DEFAULT_FONT_SIZE))}, r \in BOOLEAN}
CellStarts == {0, Px(MARGIN), Px(MARGIN) + Px(34)}

InitCell ==
    /\ variant \in {"engine", "elements"}
    /\ current_y \in CellStarts
    /\ cell_kids \in SeqsUpTo(CellKidOutcomes, MaxCellKids)
    /\ cell_pc = "idle" /\ cell_saved_y = 0 /\ cell_i = 1
    /\ OtherIdle
    /\ viewport_width = Px(VIEWPORT_WIDTH)
    /\ dom = Root(<<>>) /\ pc = "ready" /\ child_index = 1
    /\ layout_root = NoNode /\ calls = <<>> /\ pass = 1 /\ prev_root = NoNode
    /\ WrapIdle /\ ParserIdle /\ FontIdle

\* the cell's layout begins: saved_y = current_y, and the cursor is moved to
\* start_y + PADDING (TableCellElement.layout_with_width; in the engine the
\* row does it before it calls _layout_table_cell_with_width)
CellEnter ==
    /\ cell_pc = "idle"
    /\ cell_saved_y' = current_y
    /\ current_y' = current_y + Px(PADDING)
    /\ cell_pc' = "children"
    /\ UNCHANGED <<cell_kids, cell_i>>
    /\ UNCHANGED <<variant, viewport_width, dom, pc, child_index, layout_root, calls,
                   pass, prev_root>>
    /\ UNCHANGED <<wrap_vars, parser_vars, font_vars, other_vars>>

\* the layout of the next child returns, having moved the cursor
CellChildReturns ==
    /\ cell_pc = "children"
    /\ cell_i <= Len(cell_kids)
    /\ ~cell_kids[cell_i].raises
    /\ current_y' = current_y + cell_kids[cell_i].advance
    /\ cell_i' = cell_i + 1
    /\ UNCHANGED <<cell_pc, cell_saved_y, cell_kids>>
    /\ UNCHANGED <<variant, viewport_width, dom, pc, child_index, layout_root, calls,
                   pass, prev_root>>
    /\ UNCHANGED <<wrap_vars, parser_vars, font_vars, other_vars>>

\* the layout of the next child raises: no handler and no finally clause
\* stands between the call and the caller of the cell's layout, so the
\* exception leaves the cell's layout with the cursor as the child left it
CellChildRaises ==
    /\ cell_pc = "children"
    /\ cell_i <= Len(cell_kids)
    /\ cell_kids[cell_i].raises
    /\ current_y' = current_y + cell_kids[cell_i].advance
    /\ cell_pc' = "raised"
    /\ UNCHANGED <<cell_saved_y, cell_kids, cell_i>>
    /\ UNCHANGED <<variant, viewport_width, dom, pc, child_index, layout_root, calls,
                   pass, prev_root>>
    /\ UNCHANGED <<wrap_vars, parser_vars, font_vars, other_vars>>

\* after the loop: the height is taken and the cursor is put back to saved_y
CellReturn ==
    /\ cell_pc = "children"
    /\ cell_i > Len(cell_kids)
    /\ current_y' = restore_cursor(cell_saved_y, current_y)
    /\ cell_pc' = "returned"
    /\ UNCHANGED <<cell_saved_y, cell_kids, cell_i>>
    /\ UNCHANGED <<variant, viewport_width, dom, pc, child_index, layout_root, calls,
                   pass, prev_root>>
    /\ UNCHANGED <<wrap_vars, parser_vars, font_vars, other_vars>>

NextCell ==
    \/ CellEnter
    \/ CellChildReturns
    \/ CellChildRaises
    \/ CellReturn

SpecCell == InitCell /\ [][NextCell]_vars

\* no layout pass is followed
LayoutIdle ==
    /\ variant = "engine" /\ viewport_width = Px(VIEWPORT_WIDTH)
    /\ dom = Root(<<>>) /\ current_y = 0 /\ pc = "ready" /\ child_index = 1
    /\ layout_root = NoNode /\ calls = <<>> /\ pass = 1 /\ prev_root = NoNode

\* ========================================================= the HTML parser
VOID_TAGS == {"br", "hr", "img"}
\* tag names of the events: a container, a second one, a void tag, and the
\* tag of the root node
ParserTags == {"div", "p", "br", "root"}
ParserData == {<<"a">>, <<" ">>}

\* DOMNode(tag), once added to its parent
ParserNode(tag, parent) == [tag |-> tag, parent |-> parent]

\* HTMLParser.parse, up to feed: a new root, current = root, stack = [root]
InitParser ==
    /\ parser_nodes = <<ParserNode("root", 0)>>
    /\ current = 1
    /\ stack = <<1>>
    /\ fed = 0
    /\ LayoutIdle /\ WrapIdle /\ CellIdle /\ FontIdle /\ OtherIdle

\* HTMLParser.handle_starttag(tag, attrs)
HandleStartTag ==
    /\ fed < MaxEvents
    /\ \E tag \in ParserTags :
           LET node == Len(parser_nodes) + 1
           IN  /\ parser_nodes' = Append(parser_nodes, ParserNode(tag, current))
               /\ IF tag \in VOID_TAGS
                  THEN UNCHANGED <<stack, current>>
                  ELSE /\ stack' = Append(stack, node)
                       /\ current' = node
    /\ fed' = fed + 1
    /\ UNCHANGED <<other_vars, layout_vars, wrap_vars, cell_vars, font_vars>>

\* the index of the topmost stack entry with the tag, 0 when there is none
MatchingOpen(tag) ==
    LET found == {i \in 1..Len(stack) : parser_nodes[stack[i]].tag = tag}
    IN  IF found = {} THEN 0 ELSE CHOOSE i \in found : \A j \in found : j <= i

\* HTMLParser.handle_endtag(tag): python's stack[:i] with i counted from 0
\* keeps the entries below the matching one
HandleEndTag ==
    /\ fed < MaxEvents
    /\ \E tag \in ParserTags :
           IF tag \in VOID_TAGS \/ MatchingOpen(tag) = 0
           THEN UNCHANGED <<stack, current>>
           ELSE LET kept == SubSeq(stack, 1, MatchingOpen(tag) - 1)
                IN  /\ stack' = kept
                    /\ current' = IF kept # <<>> THEN kept[Len(kept)] ELSE 1
    /\ fed' = fed + 1
    /\ UNCHANGED parser_nodes
    /\ UNCHANGED <<other_vars, layout_vars, wrap_vars, cell_vars, font_vars>>

\* HTMLParser.handle_data(data)
HandleData ==
    /\ fed < MaxEvents
    /\ \E data \in ParserData :
           parser_nodes' = IF strip(data) # <<>>
                           THEN Append(parser_nodes, ParserNode("text", current))
                           ELSE parser_nodes
    /\ fed' = fed + 1
    /\ UNCHANGED <<stack, current>>
    /\ UNCHANGED <<other_vars, layout_vars, wrap_vars, cell_vars, font_vars>>

NextParser ==
    \/ HandleStartTag
    \/ HandleEndTag
    \/ HandleData

SpecParser == InitParser /\ [][NextParser]_vars

\* ========================================================= the font cache
\* FontManager (and Renderer, whose _load_fonts and _get_font are the same
\* code): the fonts loaded at construction and the cache of get_font
REGULAR_FONT == "OpenSans-Regular.ttf"
MONO_FONT == "SourceCodePro-Regular.ttf"

\* ImageFont.load_default(): not a FreeTypeFont, so not a font that get_font
\* resizes
load_default == Font("default", 0, FALSE)

\* sizes asked for: the default, a larger one and one that truetype rejects
FontSizes == {0, DEFAULT_FONT_SIZE, 2 * DEFAULT_FONT_SIZE}

\* FontManager._load_fonts for a fonts directory that holds the regular
\* font, the monospace font, both or neither
InitFont ==
    /\ \E regular_exists \in BOOLEAN, mono_exists \in BOOLEAN :
          /\ default_font = IF regular_exists
                            THEN Font(REGULAR_FONT, DEFAULT_FONT_SIZE, TRUE)
                            ELSE load_default
          /\ bold_font = IF regular_exists
                         THEN Font(REGULAR_FONT, DEFAULT_FONT_SIZE, TRUE)
                         ELSE NoFont
          /\ mono_font = IF mono_exists
                         THEN Font(MONO_FONT, DEFAULT_FONT_SIZE, TRUE)
                         ELSE NoFont
    /\ font_cache = {}
    /\ got = NoGet
    /\ gets = 0
    /\ LayoutIdle /\ WrapIdle /\ CellIdle /\ ParserIdle /\ OtherIdle

\* a cache that tells monospace requests from the others
KeyWithMonospace(size, bold, italic, monospace) == <<size, bold, italic, monospace>>

\* key: Tuple[int, bool, bool] = (size, bold, italic)
font_key(size, bold, italic, monospace) == <<size, bold, italic>>

\* get_font's choice of the base font
base_font(bold, monospace) ==
    IF monospace /\ mono_font # NoFont THEN mono_font
    ELSE IF bold /\ bold_font # NoFont THEN bold_font
    ELSE default_font

\* whether ImageFont.truetype(path, size) raises: for a size that is not
\* positive, and for a font file that cannot be read when it is called
truetype_raises(size, unreadable) == size <= 0 \/ unreadable

\* get_font past the cache lookup: a FreeTypeFont base font is made anew at
\* the requested size, and is itself the font when truetype raises; a base
\* font of another kind is the font; without a base font the font is
\* load_default()
create_font(size, bold, italic, monospace, unreadable) ==
    LET base == base_font(bold, monospace)
    IN  IF base # NoFont /\ base.freetype
        THEN IF truetype_raises(size, unreadable) THEN base
             ELSE Font(base.path, size, TRUE)
        ELSE IF base # NoFont THEN base
        ELSE load_default

\* FontManager.get_font(size, bold, italic, monospace), called while the
\* font files can be read or while they cannot
GetFont ==
    /\ gets < MaxGets
    /\ \E size \in FontSizes, bold \in BOOLEAN, italic \in BOOLEAN, monospace \in BOOLEAN,
          unreadable \in BOOLEAN :
          LET key == font_key(size, bold, italic, monospace)
              hits == {e \in font_cache : e.key = key}
              font == IF hits # {} THEN (CHOOSE e \in hits : TRUE).font
                      ELSE create_font(size, bold, italic, monospace, unreadable)
          IN  /\ font_cache' = IF hits # {} THEN font_cache
                               ELSE font_cache \cup {[key |-> key, font |-> font]}
              /\ got' = [size |-> size, bold |-> bold, italic |-> italic,
                         monospace |-> monospace, unreadable |-> unreadable,
                         font |-> font]
    /\ gets' = gets + 1
    /\ UNCHANGED <<default_font, bold_font, mono_font>>
    /\ UNCHANGED <<other_vars, layout_vars, wrap_vars, cell_vars, parser_vars>>

\* FontManager.clear_cache()
ClearCache ==
    /\ font_cache' = {}
    /\ UNCHANGED <<default_font, bold_font, mono_font, got, gets>>
    /\ UNCHANGED <<other_vars, layout_vars, wrap_vars, cell_vars, parser_vars>>

NextFont ==
    \/ GetFont
    \/ ClearCache

SpecFont == InitFont /\ [][NextFont]_vars

\* ================================================================ claims
\* calls[k] is an element's layout call (not a row's step over a cell)
IsElementCall(k) == calls[k].kind # "RowCellStep"
Parent(path) == SubSeq(path, 1, Len(path) - 1)

\* C1: every element layout call other than a table cell's returns with
\* current_y greater than or equal to current_y when the call began
CursorMonotone ==
    \A k \in 1..Len(calls) :
        calls[k].kind \notin {"TableCell", "RowCellStep"}
            => calls[k].after >= calls[k].before

\* a row that is not the first of its table has been laid out from a cursor
\* past 0 and has moved it on, in the variant whose row assigns the cursor
CursorMonotoneWitness ==
    /\ variant = "elements"
    /\ \E k \in 1..Len(calls) :
           /\ calls[k].kind = "TableRow"
           /\ calls[k].before > Px(MARGIN)
           /\ calls[k].after > calls[k].before

\* C2: the box.height of every Block, Heading, List and Table node equals
\* current_y after the node's own layout call minus current_y before it
HeightConsistent ==
    \A k \in 1..Len(calls) :
        (calls[k].kind \in {"Block", "Heading", "List", "Table"} /\ calls[k].has)
            => calls[k].box.height = calls[k].after - calls[k].before

\* C3: in a row, the step over each cell leaves current_y where it was, at
\* the row's start; the cells of a row have one y; the cursor moves once,
\* by the row's height, when the row returns
CellsLeaveCursor ==
    /\ \A k \in 1..Len(calls) :
           (variant = "elements" /\ calls[k].kind = "TableCell")
               => calls[k].after = calls[k].before
    /\ \A k \in 1..Len(calls) :
           calls[k].kind = "RowCellStep"
               => /\ calls[k].after = calls[k].before
                  /\ \E j \in 1..Len(calls) :
                         /\ calls[j].kind = "TableRow"
                         /\ calls[j].path = Parent(calls[k].path)
                         /\ calls[k].before = calls[j].before
                         /\ calls[j].after = calls[j].before + calls[j].box.height
                  /\ \A m \in 1..Len(calls) :
                         (calls[m].kind = "RowCellStep"
                              /\ Parent(calls[m].path) = Parent(calls[k].path))
                             => calls[m].box.y = calls[k].box.y

\* the second cell of a row has been laid out after a first cell whose
\* content moved the cursor, in a row that does not start at 0
CellsLeaveCursorWitness ==
    /\ variant = "elements"
    /\ \E k, m \in 1..Len(calls) :
           /\ calls[k].kind = "RowCellStep" /\ calls[m].kind = "RowCellStep"
           /\ calls[k].arg = 1 /\ calls[m].arg = 2
           /\ Parent(calls[m].path) = Parent(calls[k].path)
           /\ calls[k].box.height > 2 * Px(PADDING)
           /\ calls[m].before > 0

\* the cursor advances of the calls compute_layout makes for the root's children
RECURSIVE SumTopAdvances(_)
SumTopAdvances(k) ==
    IF k = 0 THEN 0
    ELSE SumTopAdvances(k - 1)
         + (IF Len(calls[k].path) = 1 /\ IsElementCall(k)
            THEN calls[k].after - calls[k].before ELSE 0)

\* C4: when compute_layout on a fresh engine returns, the root's box.height
\* is the final current_y, the total of the cursor advances from 0
RootHeightIsCursor ==
    pc = "done"
        => /\ layout_root.box.height = current_y
           /\ current_y = SumTopAdvances(Len(calls))

\* compute_layout has returned for a document with two children that both
\* moved the cursor
RootHeightIsCursorWitness ==
    /\ pc = "done"
    /\ Len(layout_root.children) = 2
    /\ \E k \in 1..Len(calls) : calls[k].path = <<2>> /\ calls[k].after > calls[k].before
    /\ \E k \in 1..Len(calls) : calls[k].path = <<1>> /\ calls[k].after > calls[k].before

\* the number of direct td/th children of a row
CellCount(row) ==
    Cardinality({c \in 1..Len(row.children) : row.children[c].tag \in {"td", "th"}})

\* the number of direct td/th children of the first tr of a table that has one
FirstRowCellCount(table) ==
    LET trs == {r \in 1..Len(table.children) : table.children[r].tag = "tr"}
        first == CHOOSE r \in trs : \A q \in trs : r <= q
    IN  CellCount(table.children[first])

\* C5: every row of a table is laid out with the column count of the
\* table's first tr, and with the column width that count gives
ColumnsFromFirstRow ==
    \A k, j \in 1..Len(calls) :
        (calls[k].kind = "TableRow" /\ calls[j].kind = "Table"
             /\ calls[j].path = Parent(calls[k].path))
            => LET n == FirstRowCellCount(NodeAt(dom, calls[j].path))
               IN  /\ calls[k].arg = n
                   /\ calls[k].col_width * n = calls[j].box.width - 2 * Px(PADDING)
                   /\ calls[k].nkids <= n

\* a table whose first row has two cells has laid out a later row that has
\* more cells, and one that has fewer
ColumnsFromFirstRowWitness ==
    \E k, j \in 1..Len(calls) :
        /\ calls[k].kind = "TableRow" /\ calls[j].kind = "Table"
        /\ calls[j].path = Parent(calls[k].path)
        /\ calls[k].arg = 2
        /\ CellCount(NodeAt(dom, calls[k].path)) > 2

\* the words of a text: its maximal runs of characters that are not whitespace
WordsOf(t) ==
    {SubSeq(t, i, j) : <<i, j>> \in
        {p \in (1..Len(t)) \X (1..Len(t)) :
            /\ p[1] <= p[2]
            /\ \A c \in p[1]..p[2] : ~IsSpace(t[c])
            /\ (p[1] = 1 \/ IsSpace(t[p[1] - 1]))
            /\ (p[2] = Len(t) \/ IsSpace(t[p[2] + 1]))}}

\* a word wider than max_width is a line of the result, and every line it is
\* a word of is that word alone
LongWordsAlone(t, max_width, lines, font) ==
    \A w \in WordsOf(t) :
        measure(font, w) > max_width
            => /\ \E i \in 1..Len(lines) : lines[i] = w
               /\ \A i \in 1..Len(lines) : w \in WordsOf(lines[i]) => lines[i] = w

\* C6 as the spec states it: for every text and every maximum width both
\* wrappers return each word wider than the maximum as a line of its own
LongWordOwnLineAnyWidth ==
    /\ wrapped => LongWordsAlone(wrap_input, wrap_width, wrap_lines, NoTextFont)
    /\ font_wrapped => LongWordsAlone(wrap_input, wrap_width, font_lines, wrap_font)

\* C6: wrap_text returns each word wider than the maximum width as a line of
\* its own for every maximum width, wrap_text_with_font for every positive one
LongWordOwnLine ==
    /\ wrapped => LongWordsAlone(wrap_input, wrap_width, wrap_lines, NoTextFont)
    /\ (font_wrapped /\ wrap_width > 0)
           => LongWordsAlone(wrap_input, wrap_width, font_lines, wrap_font)

\* both wrappers have wrapped, to a positive width, a text of several words
\* one of which is wider than that width
LongWordOwnLineWitness ==
    /\ wrapped /\ font_wrapped
    /\ wrap_width > 0
    /\ Cardinality(WordsOf(wrap_input)) >= 2
    /\ wrap_font.getbbox = "present"
    /\ \E w \in WordsOf(wrap_input) : Len(w) * Px(CHAR_WIDTH_ESTIMATE) > wrap_width
    /\ \E w \in WordsOf(wrap_input) : Len(w) * Px(CHAR_WIDTH_ESTIMATE) <= wrap_width
    /\ \E w \in WordsOf(wrap_input) : measure(wrap_font, w) > wrap_width
    /\ \E w \in WordsOf(wrap_input) : measure(wrap_font, w) <= wrap_width

\* the behaviours of the dispatch
ElementKinds ==
    {"Text", "Heading", "Block", "Pre", "Button", "Input", "Select", "Option",
     "List", "ListItem", "Inline", "Break", "HorizontalRule", "Table",
     "TableRow", "TableCell"}

\* the layout of node n as the first child of the root
LayoutAsFirstChild(n) ==
    IF variant = "elements"
    THEN _layout_child(n, Px(MARGIN), 0, <<1>>, viewport_width)
    ELSE _layout_node(n, Px(MARGIN), 0, <<1>>, viewport_width, variant = "engine")

\* C7: the dispatch gives every tag a behaviour, and a tag that is no key of
\* the dispatch table the Block behaviour: the node is laid out as the same
\* node with the tag div is
UnknownTagLikeDiv ==
    /\ \A k \in 1..Len(calls) :
           /\ IsElementCall(k) => calls[k].kind \in ElementKinds
           /\ NodeAt(dom, calls[k].path).tag \notin DOMAIN TAG_TO_ELEMENT
                  => calls[k].kind \in {"Block", "RowCellStep"}
    /\ (pc = "children" /\ child_index = 2 /\ pass = 1
            /\ dom.children[1].tag \notin DOMAIN TAG_TO_ELEMENT)
           => LET r == LayoutAsFirstChild([dom.children[1] EXCEPT !.tag = "div"])
              IN  /\ current_y = r.y
                  /\ r.has
                  /\ Len(layout_root.children) = 1
                  /\ layout_root.children[1] = [r.node EXCEPT !.tag = dom.children[1].tag]

\* a node whose tag is unknown, empty, padded or in upper case, with
\* children, has been laid out as the root's first child
UnknownTagLikeDivWitness ==
    /\ pc = "children" /\ child_index = 2
    /\ dom.children[1].tag \in {"foo", "", " div ", "DIV"}
    /\ Len(layout_root.children) = 1
    /\ Len(layout_root.children[1].children) = 2
    /\ calls[1].kind = "Block"

\* C8: compute_layout over the same document tree from two freshly
\* constructed engines of the same viewport width returns identical layout
\* trees (shape, boxes, annotations), whatever layout passes other engine
\* instances ran before the first or between the two
FreshEnginesAgree ==
    (pass > 1 /\ pc = "done") => layout_root = prev_root

\* the second engine has returned the layout of a document that moved the
\* cursor, after another engine ran a pass before the first engine's pass
\* and one between the two passes and was left with its cursor elsewhere
FreshEnginesAgreeWitness ==
    /\ pass = 2 /\ pc = "done"
    /\ Len(layout_root.children) > 0
    /\ current_y > 0
    /\ prev_root.box.height = current_y
    /\ \E k \in 1..Len(other_runs) : other_runs[k] = [pass |-> 1, pc |-> "ready"]
    /\ \E k \in 1..Len(other_runs) :
           other_runs[k] \in {[pass |-> 1, pc |-> "done"], [pass |-> 2, pc |-> "ready"]}
    /\ other_y > 0 /\ other_y # current_y

\* every box of the tree under node has x, y, width and height >= 0
RECURSIVE BoxesNonNegative(_)
BoxesNonNegative(node) ==
    /\ node.box.x >= 0 /\ node.box.y >= 0
    /\ node.box.width >= 0 /\ node.box.height >= 0
    /\ \A c \in 1..Len(node.children) : BoxesNonNegative(node.children[c])

\* C9: every box of the layout tree compute_layout returns has x, y, width
\* and height >= 0, for every document and every viewport width
AllBoxesNonNegative ==
    pc = "done" => BoxesNonNegative(layout_root)

\* the number of element layout calls made so far
ElementCallCount == Cardinality({k \in 1..Len(calls) : IsElementCall(k)})

\* the nodes of the root's children before the i-th
RECURSIVE NodesBefore(_)
NodesBefore(i) ==
    IF i <= 1 THEN 0 ELSE NodesBefore(i - 1) + NodeCount(dom.children[i - 1])

\* C10: compute_layout terminates, its loop running once over the root's
\* children and each round making at most as many element layout calls as
\* the child has nodes, so that the calls number at most the document's
\* nodes, with no node laid out twice
LayoutCallsBounded ==
    /\ pc \in {"ready", "children", "done"}
    /\ child_index \in 1..(Len(dom.children) + 1)
    /\ ElementCallCount <= NodesBefore(child_index)
    /\ ElementCallCount <= NodeCount(dom)
    /\ \A k, j \in 1..Len(calls) :
           (IsElementCall(k) /\ IsElementCall(j) /\ calls[k].path = calls[j].path)
               => k = j

\* compute_layout has returned for a document in which every node but the
\* root was laid out, nested three deep
LayoutCallsBoundedWitness ==
    /\ pc = "done"
    /\ ElementCallCount = NodeCount(dom) - 1
    /\ \E k \in 1..Len(calls) : Len(calls[k].path) >= 3

\* C11: compute_layout never modifies the document tree: no step of a pass
\* changes a node's tag, attributes, text or children (and so no node's
\* place under its parent)
DocumentUnchanged == [][dom' = dom]_vars

\* compute_layout has returned after laying out a text node whose text has
\* blanks around it, which the layout stripped for its lines, and an element
\* with attributes and children
DocumentUnchangedWitness ==
    /\ pc = "done"
    /\ \E k \in 1..Len(calls) :
           /\ calls[k].kind = "Text"
           /\ strip(calls[k].dom.text) # calls[k].dom.text
           /\ NodeAt(dom, calls[k].path).text = calls[k].dom.text
    /\ \E k \in 1..Len(calls) :
           /\ IsElementCall(k)
           /\ calls[k].dom.attrs # {} \/ calls[k].dom.children # <<>>

\* every layout node of the tree under node, node included
RECURSIVE NodesOf(_)
NodesOf(node) ==
    {node} \cup UNION {NodesOf(node.children[c]) : c \in DOMAIN node.children}

LayoutNodes == NodesOf(layout_root)

Last(path) == path[Len(path)]

LiCount(kids) == Cardinality({c \in DOMAIN kids : kids[c].tag = "li"})

\* C12: in the layout of a list the ListItem nodes are the list's li children
\* in document order, and each item's box.y is strictly greater than the
\* box.y of the item before it, even when the items have no content
ListItemsInOrder ==
    \A l \in LayoutNodes :
        l.tag \in {"ul", "ol"} =>
            /\ Len(l.children) = LiCount(NodeAt(dom, l.path).children)
            /\ \A c \in DOMAIN l.children :
                   /\ l.children[c].tag = "li"
                   /\ Parent(l.children[c].path) = l.path
            /\ \A c \in 1..(Len(l.children) - 1) :
                   /\ Last(l.children[c].path) < Last(l.children[c + 1].path)
                   /\ l.children[c].box.y < l.children[c + 1].box.y

ListItemsInOrderWitness ==
    \E l \in LayoutNodes :
        /\ l.tag \in {"ul", "ol"}
        /\ Len(l.children) >= 2
        /\ l.children[1].children = <<>>
        /\ l.children[2].children = <<>>
        /\ l.children[1].box.y < l.children[2].box.y

\* calls i..j of the log are line breaks, one after the other under one parent
IsBreakRun(i, j) ==
    /\ \A k \in i..j : calls[k].kind = "Break" /\ NodeAt(dom, calls[k].path).tag = "br"
    /\ \A k \in i..(j - 1) :
           /\ Parent(calls[k + 1].path) = Parent(calls[k].path)
           /\ Last(calls[k + 1].path) = Last(calls[k].path) + 1

\* C13: a line break yields no layout node and advances the cursor by exactly
\* 0.5 * DEFAULT_FONT_SIZE, so a run of n consecutive breaks yields no node
\* and advances the cursor by n * 0.5 * DEFAULT_FONT_SIZE
BreaksAdvanceHalfFont ==
    /\ \A nd \in LayoutNodes : nd.tag # "br"
    /\ \A i \in 1..Len(calls) : \A j \in i..Len(calls) :
           IsBreakRun(i, j) =>
               /\ \A k \in i..j : ~calls[k].has
               /\ 2 * (calls[j].after - calls[i].before)
                      = (j - i + 1) * Px(DEFAULT_FONT_SIZE)

BreaksAdvanceHalfFontWitness ==
    \E i \in 1..Len(calls) :
        /\ i + MaxBreaks - 1 <= Len(calls)
        /\ IsBreakRun(i, i + MaxBreaks - 1)
        /\ calls[i + MaxBreaks - 1].after > calls[i].before

\* the content height of a laid out cell, from the cell's box: the element
\* classes' cell box holds the content and 2 * PADDING, the engine's cell box
\* holds the content alone
CellContentHeight(box) ==
    IF variant = "elements" THEN box.height - 2 * Px(PADDING) ELSE box.height

\* the largest of the values of the set hs and of floor
RECURSIVE MaxOf(_, _)
MaxOf(hs, floor) ==
    IF hs = {} THEN floor
    ELSE LET h == CHOOSE v \in hs : TRUE
         IN  MaxOf(hs \ {h}, Max(h, floor))

\* the content heights of the cells the row at row_path laid out
RowCellHeights(row_path) ==
    {CellContentHeight(calls[j].box) :
        j \in {m \in 1..Len(calls) : /\ calls[m].kind = "RowCellStep"
                                      /\ Parent(calls[m].path) = row_path}}

\* C14: when a table row returns, the cursor is the row's start_y plus the
\* row height plus 2 * PADDING, where the row height is the largest of the
\* cells' content heights and DEFAULT_FONT_SIZE * LINE_HEIGHT; also for a
\* row with no cells or with only empty cells
RowHeightHasMinimum ==
    \A k \in 1..Len(calls) :
        calls[k].kind = "TableRow" =>
            LET row_height == MaxOf(RowCellHeights(calls[k].path),
                                    TimesLineHeight(Px(DEFAULT_FONT_SIZE)))
            IN  calls[k].after = calls[k].before + row_height + 2 * Px(PADDING)

\* the number of li children among the first i children
LiRank(kids, i) == Cardinality({c \in 1..i : kids[c].tag = "li"})

\* C15: the k-th li child of a list, in document order, is laid out with
\* index k, and its marker is "k." when the list is ordered, whatever other
\* children the list has before or between its li children
ListIndexIsLiRank ==
    /\ \A k \in 1..Len(calls) :
           (/\ calls[k].kind = "ListItem"
            /\ calls[k].path # <<>>
            /\ NodeAt(dom, Parent(calls[k].path)).tag \in {"ul", "ol"})
               => calls[k].arg = LiRank(NodeAt(dom, Parent(calls[k].path)).children,
                                         Last(calls[k].path))
    /\ \A l \in LayoutNodes :
           l.tag = "ol" =>
               \A c \in DOMAIN l.children :
                   /\ l.children[c].has_marker
                   /\ l.children[c].marker = ToString(c) \o "."

HeadingTags == {"h1", "h2", "h3", "h4", "h5", "h6"}

\* DEFAULT_FONT_SIZE * multiplier[tag] * LINE_HEIGHT
HeadingLineHeight(tag) ==
    TimesLineHeight((Px(DEFAULT_FONT_SIZE) * HEADING_SIZES(tag)) \div 100)

\* the node is a heading whose only child is one non-empty text node
HasOneText(n) ==
    /\ n.tag \in HeadingTags
    /\ Len(n.children) = 1
    /\ n.children[1].tag = "text"
    /\ strip(n.children[1].text) # <<>>

\* C16: a heading whose only child is one non-empty text node advances the
\* cursor by 1.5 * MARGIN + DEFAULT_FONT_SIZE * multiplier * LINE_HEIGHT
\* + 1.5 * MARGIN, and its text child's box.height is DEFAULT_FONT_SIZE *
\* multiplier * LINE_HEIGHT, whatever the number of lines the text wraps to
HeadingAdvanceFixed ==
    /\ \A k \in 1..Len(calls) :
           (calls[k].kind = "Heading" /\ HasOneText(NodeAt(dom, calls[k].path)))
               => /\ calls[k].after - calls[k].before
                        = 3 * Px(MARGIN) + HeadingLineHeight(NodeAt(dom, calls[k].path).tag)
                  /\ calls[k].nkids = 1
    /\ \A l \in LayoutNodes :
           (l.tag \in HeadingTags /\ HasOneText(NodeAt(dom, l.path)))
               => /\ Len(l.children) = 1
                  /\ l.children[1].tag = "text"
                  /\ l.children[1].box.height = HeadingLineHeight(l.tag)

\* a heading's text wrapped to two lines or more, whose own height is not
\* the heading's line height
HeadingAdvanceFixedWitness ==
    \E l \in LayoutNodes :
        /\ HasOneText(NodeAt(dom, l.path))
        /\ Len(l.children) = 1
        /\ Len(l.children[1].lines) >= 2
        /\ Len(l.children[1].lines) * TimesLineHeight(Px(DEFAULT_FONT_SIZE))
               # HeadingLineHeight(l.tag)
        /\ \E k \in 1..Len(calls) : calls[k].kind = "Heading" /\ calls[k].path = l.path

\* the table has no tr child, or its first tr has no td/th child
ZeroColumns(table) ==
    \/ \A r \in 1..Len(table.children) : table.children[r].tag # "tr"
    \/ FirstRowCellCount(table) = 0

\* C17 as stated: a table with zero columns yields no layout node
ZeroColumnTableOmitted ==
    \A k \in 1..Len(calls) :
        (calls[k].kind = "Table" /\ ZeroColumns(NodeAt(dom, calls[k].path)))
            => ~calls[k].has

\* C17, amended: the layout of a table with zero columns lays out no row and
\* returns a layout node with no children, which its parent adds to its own
\* layout children
ZeroColumnTableIsEmptyNode ==
    \A k \in 1..Len(calls) :
        (calls[k].kind = "Table" /\ ZeroColumns(NodeAt(dom, calls[k].path)))
            => /\ calls[k].has
               /\ calls[k].nkids = 0
               /\ \A j \in 1..Len(calls) : Parent(calls[j].path) # calls[k].path
               /\ \E l \in LayoutNodes :
                      /\ l.path = calls[k].path
                      /\ l.tag = "table"
                      /\ l.children = <<>>

\* a table with rows but no columns has been laid out below the root's
\* first level, and the tree holds its node
ZeroColumnTableIsEmptyNodeWitness ==
    \E k \in 1..Len(calls) :
        /\ calls[k].kind = "Table"
        /\ NodeAt(dom, calls[k].path).children # <<>>
        /\ ZeroColumns(NodeAt(dom, calls[k].path))
        /\ \E l \in LayoutNodes : l.path = calls[k].path /\ l.tag = "table"

\* the node is a text node whose text is empty or whitespace only
IsBlankText(n) == n.tag = "text" /\ strip(n.text) = <<>>

\* C18: a text node whose text is empty or whitespace-only yields no layout
\* node, is not added to its parent's layout children, and does not move
\* the cursor, wherever in the document tree it occurs
BlankTextOmitted ==
    /\ \A k \in 1..Len(calls) :
           (calls[k].kind = "Text" /\ IsBlankText(NodeAt(dom, calls[k].path)))
               => ~calls[k].has /\ calls[k].after = calls[k].before
    /\ \A l \in LayoutNodes : ~IsBlankText(NodeAt(dom, l.path))

\* no layout call for a child of the node at path yielded a layout node
NoChildYielded(path) ==
    \A j \in 1..Len(calls) :
        (IsElementCall(j) /\ calls[j].path # <<>> /\ Parent(calls[j].path) = path)
            => ~calls[j].has

\* C19: an inline element yields no layout node whenever every one of its
\* children yielded none, in particular when it has no children, so that no
\* node of the layout tree is an inline element without children
EmptyInlineOmitted ==
    /\ \A k \in 1..Len(calls) :
           (calls[k].kind = "Inline" /\ NoChildYielded(calls[k].path))
               => ~calls[k].has
    /\ \A l \in LayoutNodes :
           (l.path # <<>> /\ \E k \in 1..Len(calls) :
                                 calls[k].kind = "Inline" /\ calls[k].path = l.path)
               => l.children # <<>>

\* the cell has no children, or only empty or whitespace-only text children
IsEmptyCell(cell) ==
    \A c \in 1..Len(cell.children) : IsBlankText(cell.children[c])

\* C20: a table cell with no children, or with only empty or
\* whitespace-only text children, gets a box height of exactly 2 * PADDING
EmptyCellHeightIsPadding ==
    \A k \in 1..Len(calls) :
        (calls[k].kind = "TableCell" /\ IsEmptyCell(NodeAt(dom, calls[k].path)))
            => /\ calls[k].has
               /\ calls[k].box.height = 2 * Px(PADDING)

\* C21: the cursor saved at the start of a cell's layout is restored on every
\* exit path of that layout: when it returns, also for an empty cell, and
\* when the layout of one of the cell's children raises
CursorRestoredOnEveryExit ==
    cell_pc \in {"returned", "raised"} => current_y = cell_saved_y

\* the measured width of a line: its character count, separating spaces
\* included, times the character width
LineWidth(line) == Len(line) * Px(CHAR_WIDTH_ESTIMATE)

\* C22: every line of wrap_text's result that holds two or more words has a
\* measured width no greater than the maximum width; only a line of a
\* single word may exceed it
MultiWordLinesFit ==
    wrapped =>
        \A i \in 1..Len(wrap_lines) :
            Len(split(wrap_lines[i])) >= 2 => LineWidth(wrap_lines[i]) <= wrap_width

\* C23: each non-root node's box.x and box.y are greater than or equal to
\* the box.x and box.y of its parent node
ChildBoxWithinParent ==
    \A l \in LayoutNodes : \A c \in DOMAIN l.children :
        /\ l.children[c].box.x >= l.box.x
        /\ l.children[c].box.y >= l.box.y

\* C24: after parse() has reset the parser and any events have been handled,
\* the open-element stack is non-empty with the root at its bottom, each
\* stack entry is the parent of the entry above it, and `current` is the top
\* of the stack
StackWellFormed ==
    parser_nodes # <<>> =>
        /\ stack # <<>>
        /\ stack[1] = 1
        /\ \A i \in 1..(Len(stack) - 1) : parser_nodes[stack[i + 1]].parent = stack[i]
        /\ current = stack[Len(stack)]

\* the text C25 gives a select with options: that of the first option marked
\* selected, or of the first option when none is marked
ChosenOptionText(options) ==
    LET marked == {i \in 1..Len(options) : HasAttr(options[i], "selected")}
    IN  IF marked = {} THEN get_text(options[1])
        ELSE get_text(options[CHOOSE i \in marked : \A j \in marked : i <= j])

\* C25: a select's display text is the text of the first option marked
\* selected, or of the first option when none is marked, and the placeholder
\* is displayed exactly when the select has no option children
SelectDisplaysChosenOption ==
    \A l \in LayoutNodes :
        l.control_kind = "select" =>
            LET options == option_children(NodeAt(dom, l.path))
            IN  /\ options # <<>> => l.shown_text = ChosenOptionText(options)
                /\ (l.shown_text = PLACEHOLDER) <=> (options = <<>>)

\* the text has no explicit newline
NoNewline(t) == \A i \in 1..Len(t) : t[i] # "\n"

\* joined with single spaces, the lines are the words of the text in their
\* order
KeepsWords(t, lines) == join(lines) = join(split(t))

NoEmptyLine(lines) == \A i \in 1..Len(lines) : lines[i] # <<>>

\* C26 as stated: for every text without explicit newlines and every positive
\* maximum width both wrappers keep the words, and no produced line is empty
WrapKeepsWordsNoEmptyLine ==
    (NoNewline(wrap_input) /\ wrap_width > 0) =>
        /\ wrapped => KeepsWords(wrap_input, wrap_lines) /\ NoEmptyLine(wrap_lines)
        /\ font_wrapped => KeepsWords(wrap_input, font_lines) /\ NoEmptyLine(font_lines)

\* C26, amended: both wrappers keep the words, and no produced line is empty,
\* except that wrap_text_with_font returns one empty line for a text without
\* words (empty or whitespace-only), where wrap_text returns no line
WrapKeepsWords ==
    (NoNewline(wrap_input) /\ wrap_width > 0) =>
        /\ wrapped => KeepsWords(wrap_input, wrap_lines) /\ NoEmptyLine(wrap_lines)
        /\ font_wrapped =>
               /\ KeepsWords(wrap_input, font_lines)
               /\ IF split(wrap_input) = <<>>
                  THEN font_lines = << <<>> >>
                  ELSE NoEmptyLine(font_lines)
        /\ (wrapped /\ split(wrap_input) = <<>>) => wrap_lines = <<>>

\* both wrappers have wrapped a text of three words without newlines to
\* several lines
WrapKeepsWordsWitness ==
    /\ wrapped /\ font_wrapped
    /\ NoNewline(wrap_input) /\ wrap_width > 0
    /\ Len(split(wrap_input)) = 3
    /\ Len(wrap_lines) = 2
    /\ Len(font_lines) = 3

\* path p lies at or below path q
AtOrBelow(p, q) == Len(p) >= Len(q) /\ SubSeq(p, 1, Len(q)) = q

\* the positions of the row's children for which the row laid out a cell
CellsLaidOut(row_path) ==
    {Last(calls[m].path) :
        m \in {j \in 1..Len(calls) : /\ calls[j].kind = "TableCell"
                                     /\ Parent(calls[j].path) = row_path}}

\* the positions of the first n td/th children of a row
FirstCells(row, n) ==
    LET cells == row_cells(row)
    IN  {cells[j] : j \in {c \in 1..Len(cells) : c <= n}}

\* C27: a table row produces at most column_count cell nodes: its first
\* column_count td/th children, in document order, are laid out, and for
\* every further cell no layout call is made at or below it, so that it
\* yields no node and leaves the cursor alone
RowRespectsColumnLimit ==
    \A k \in 1..Len(calls) :
        calls[k].kind = "TableRow" =>
            LET row == NodeAt(dom, calls[k].path)
                cells == row_cells(row)
            IN  /\ calls[k].nkids <= calls[k].arg
                /\ calls[k].nkids = Cardinality(FirstCells(row, calls[k].arg))
                /\ CellsLaidOut(calls[k].path) = FirstCells(row, calls[k].arg)
                /\ \A c \in 1..Len(cells) :
                      c > calls[k].arg =>
                          \A m \in 1..Len(calls) :
                              ~AtOrBelow(calls[m].path, Append(calls[k].path, cells[c]))

\* a row with more td/th children than the table has columns was laid out
RowRespectsColumnLimitWitness ==
    \E k \in 1..Len(calls) :
        /\ calls[k].kind = "TableRow"
        /\ Len(row_cells(NodeAt(dom, calls[k].path))) > calls[k].arg
        /\ calls[k].arg >= 1
        /\ calls[k].nkids = calls[k].arg
        /\ \E c \in 1..Len(row_cells(NodeAt(dom, calls[k].path))) :
              /\ c > calls[k].arg
              /\ NodeAt(dom, Append(calls[k].path,
                     row_cells(NodeAt(dom, calls[k].path))[c])).children # <<>>

\* C28: a pre element whose extracted text is not empty yields a node whose
\* box.height is line_count * DEFAULT_FONT_SIZE * LINE_HEIGHT + 2 * MARGIN,
\* line_count being the number of newline-separated lines of the verbatim
\* text (empty lines counted), and the cursor advances by that height
PreHeightByLines ==
    \A k \in 1..Len(calls) :
        LET n == NodeAt(dom, calls[k].path)
        IN  (/\ IsElementCall(k)
             /\ n.tag = "pre"
             /\ extract_text(n) # <<>>)
                => LET height == Len(split_nl(extract_text(n)))
                                     * TimesLineHeight(Px(DEFAULT_FONT_SIZE))
                                 + 2 * Px(MARGIN)
                   IN  /\ calls[k].has
                       /\ calls[k].box.height = height
                       /\ calls[k].after = calls[k].before + height

\* C29: every form control that yields a node (a button with text, an input
\* of any type, a select) has box.y equal to the cursor before its layout
\* and advances the cursor by exactly box.height + MARGIN
ControlAdvanceIsHeightPlusMargin ==
    \A k \in 1..Len(calls) :
        (/\ IsElementCall(k)
         /\ NodeAt(dom, calls[k].path).tag \in {"button", "input", "select"}
         /\ calls[k].has)
            => /\ calls[k].box.y = calls[k].before
               /\ calls[k].after = calls[k].before + calls[k].box.height + Px(MARGIN)

\* C30: after any sequence of get_font calls on one font manager, the font
\* returned for (size, bold, italic, monospace) is the font those arguments
\* produce on an empty cache at the time of the call
CacheTransparent ==
    gets > 0 => got.font = create_font(got.size, got.bold, got.italic, got.monospace,
                                       got.unreadable)

====
